---- MODULE Spec2Model ----
(***************************************************************************)
(* Model of relay-server's envelope handling:                              *)
(*   - EnvelopeManager (actors/envelopes.rs): QueueEnvelope, HandleEnvelope*)
(*     with its future chain, timeout and active_envelopes counter;        *)
(*   - EnvelopeProcessor (actors/envelopes.rs): the synchronous worker     *)
(*     that runs EnvelopeProcessor::process on ProcessEnvelope messages    *)
(*     and EncodeEnvelope messages.                                        *)
(* The manager is a single-threaded actor; the processor runs on its own   *)
(* thread (SyncArbiter), so a worker handler is split into a start and a   *)
(* finish step and manager steps may fall between the two.                 *)
(* Spec is the manager with the processor; PipeSpec runs one pipeline of   *)
(* the processor line by line of process_state, for a wider set of         *)
(* envelopes and configurations.                                           *)
(***************************************************************************)
EXTENDS Integers, Sequences, FiniteSets, TLC

VARIABLES
    config,            \* Config of this relay (immutable after start)
    active_envelopes,  \* EnvelopeManager::active_envelopes
    handles,           \* every HandleEnvelope ever queued, in queueing order
    metric_msgs,       \* ProcessMetrics messages sent to the processor
    budget,            \* QueueEnvelope messages the endpoint will still send
    adversity,         \* whether collaborators may fail, limit, drop or stall
    last_reply,        \* reply of the latest QueueEnvelope
    mailbox,           \* mailbox of the EnvelopeProcessor
    worker,            \* what the processor thread is working on
    project            \* the Project of one project key, its callers and fetches

vars == <<config, active_envelopes, handles, metric_msgs, budget, adversity,
          last_reply, mailbox, worker, project>>

\* The value of project where no Project is looked at.
NoProject == [key |-> "none"]

---------------------------------------------------------------------------
\* Bounds of the model.

\* Config::envelope_buffer_size of the modelled relay.
envelope_buffer_size == 1

\* Number of QueueEnvelope messages the endpoint sends in a run in which
\* every collaborator answers and nothing fails (Init).
MaxCalls == 2

---------------------------------------------------------------------------
\* Items and envelopes.

Categories == {"Error", "Transaction", "Attachment", "Profile"}

\* An item: its type, attachment type, payload length, whether the payload
\* parses and validates, the metrics_extracted header; for a client report
\* its timestamp in Unix seconds (None if it states none) and its
\* discarded-event entries; for a session its started time and timestamp,
\* whether its sequence number is u64::MAX and whether its release
\* validates; for a session aggregate the started times of its aggregates
\* and whether its release validates; for a user report whether its
\* payload holds more than the canonical form of the typed report; for a
\* profile its platform, whether the parser of the platform accepts it and
\* whether the payload has been written anew by that parser; for a JSON
\* event payload the event id it states ("none" if it states none) and
\* whether the payload is the JSON value null.
None == <<>>
Some(x) == <<x>>

Item(ty, att, len, ok) ==
    [ty |-> ty, att |-> att, len |-> len, ok |-> ok, mx |-> FALSE,
     ts |-> None, entries |-> <<>>, id |-> "none", null |-> FALSE,
     started |-> None, seq_max |-> FALSE, release_ok |-> TRUE, aggregates |-> <<>>,
     extra |-> FALSE, platform |-> "none", body_ok |-> TRUE, parsed |-> FALSE,
     crumbs |-> <<>>]

\* Item::creates_event (envelope.rs).
creates_event_item(item) ==
    \/ item.ty \in {"Event", "Transaction", "Security", "RawSecurity", "UnrealReport"}
    \/ /\ item.ty = "Attachment"
       /\ item.att \in {"AppleCrashReport", "Minidump", "EventPayload", "Breadcrumbs"}

\* Item::requires_event (envelope.rs).
requires_event(item) ==
    item.ty \in {"Event", "Transaction", "Security", "Attachment", "FormData",
                 "RawSecurity", "UnrealReport", "UserReport", "Profile"}

is_metric(item) == item.ty \in {"Metrics", "MetricBuckets"}

\* Envelope::take_item_by applied until exhaustion / Envelope::retain_items:
\* the items for which the predicate holds, in order.
Retain(items, Keep(_)) == SelectSeq(items, Keep)

\* Index of the first item satisfying the predicate, 0 if none.
FirstIndex(items, P(_)) ==
    IF \E i \in 1..Len(items) : P(items[i])
    THEN CHOOSE i \in 1..Len(items) :
            P(items[i]) /\ \A j \in 1..(i - 1) : ~P(items[j])
    ELSE 0

RemoveAt(items, i) ==
    [j \in 1..(Len(items) - 1) |-> IF j < i THEN items[j] ELSE items[j + 1]]

\* Envelope::take_item_by: removes the first matching item.
TakeItemBy(items, P(_)) ==
    LET i == FirstIndex(items, P)
    IN  IF i = 0 THEN items ELSE RemoveAt(items, i)

HasItem(items, P(_)) == \E i \in 1..Len(items) : P(items[i])

RECURSIVE SumLen(_)
SumLen(items) ==
    IF items = <<>> THEN 0 ELSE Head(items).len + SumLen(Tail(items))

Count(items, P(_)) == Len(SelectSeq(items, P))

\* Envelope::split_by: None unless some but not all items match.
SplitMatches(items, P(_)) ==
    LET n == Count(items, P)
    IN  n # 0 /\ n # Len(items)

---------------------------------------------------------------------------
\* EnvelopeSummary and EnvelopeContext.

NoSummary ==
    [event_category |-> "None", attachment_quantity |-> 0, profile_quantity |-> 0]

IsPlainAttachment(item) == item.ty = "Attachment"
IsProfile(item) == item.ty = "Profile"
IsTransactionItem(item) == item.ty = "Transaction"

\* EnvelopeSummary::compute (utils): the event category of the item that
\* creates the event, the attachment bytes, the number of profiles.
EnvelopeSummary(items) ==
    [event_category |->
        IF HasItem(items, IsTransactionItem) THEN "Transaction"
        ELSE IF HasItem(items, creates_event_item) THEN "Error"
        ELSE "None",
     attachment_quantity |-> SumLen(SelectSeq(items, IsPlainAttachment)),
     profile_quantity |-> Count(items, IsProfile)]

\* One TrackOutcome message. src names the code place that sent it.
Track(src, outcome, category, quantity) ==
    [src |-> src, outcome |-> outcome, category |-> category, quantity |-> quantity]

\* EnvelopeContext::send_outcomes: one TrackOutcome per non-empty category
\* of the summary, in the order event, attachment, profile.
send_outcomes(summary, outcome, src) ==
    (IF summary.event_category # "None"
        THEN <<Track(src, outcome, summary.event_category, 1)>> ELSE <<>>)
    \o (IF summary.attachment_quantity > 0
        THEN <<Track(src, outcome, "Attachment", summary.attachment_quantity)>> ELSE <<>>)
    \o (IF summary.profile_quantity > 0
        THEN <<Track(src, outcome, "Profile", summary.profile_quantity)>> ELSE <<>>)

\* Quantity a summary holds in a category.
SummaryQuantity(summary, c) ==
    IF c = "Attachment" THEN summary.attachment_quantity
    ELSE IF c = "Profile" THEN summary.profile_quantity
    ELSE IF c = summary.event_category THEN 1 ELSE 0

---------------------------------------------------------------------------
\* ProcessingError and Outcome.

Err(kind, arg) == [kind |-> kind, arg |-> arg]
NoError == Err("none", "")

Outcome(kind, arg) == [kind |-> kind, arg |-> arg]
NoOutcome == Outcome("None", "")

\* ProcessingError::to_outcome.
to_outcome(err) ==
    CASE err.kind = "PayloadTooLarge"       -> Outcome("Invalid", "TooLarge")
      [] err.kind = "InvalidJson"           -> Outcome("Invalid", "InvalidJson")
      [] err.kind = "InvalidMsgpack"        -> Outcome("Invalid", "InvalidMsgpack")
      [] err.kind = "InvalidSecurityType"   -> Outcome("Invalid", "SecurityReportType")
      [] err.kind = "InvalidSecurityReport" -> Outcome("Invalid", "SecurityReport")
      [] err.kind = "InvalidTransaction"    -> Outcome("Invalid", "InvalidTransaction")
      [] err.kind = "DuplicateItem"         -> Outcome("Invalid", "DuplicateItem")
      [] err.kind = "NoEventPayload"        -> Outcome("Invalid", "NoEventPayload")
      [] err.kind = "InvalidUnrealReport"   ->
            IF err.arg = "BadCompression" THEN Outcome("Invalid", "InvalidCompression")
            ELSE Outcome("Invalid", "ProcessUnreal")
      [] err.kind \in {"SerializeFailed", "ProjectFailed", "Timeout",
                       "ProcessingFailed", "MissingProjectId", "QuotasFailed"}
                                            -> Outcome("Invalid", "Internal")
      [] OTHER                              -> NoOutcome

\* Variant: the metrics are kept whatever the error.
should_keep_metrics_any(err) == err.kind = err.kind

\* ProcessingError::should_keep_metrics.
should_keep_metrics(err) == err.kind \in {"TraceSampled", "EventSampled"}

---------------------------------------------------------------------------
\* ProcessEnvelopeState and the item processors.

\* Annotated<Event> without a value. id is the event id of the payload.
NoEvent == [present |-> FALSE, ty |-> "Default", id |-> "none"]

\* ProcessEnvelopeState::event_category: Default and Error events map to
\* Error, transactions to Transaction.
event_category(st) ==
    IF ~st.event.present THEN "None"
    ELSE IF st.event.ty = "Transaction" THEN "Transaction"
    ELSE "Error"

\* A stage that has run is appended to the trace of the state.
Ran(st, stage) == [st EXCEPT !.trace = Append(@, stage)]

\* A stage returning Err(..): the error stays in the state, which the
\* driver returns without running anything else.
\* failed_at remembers how many stages had run when the error was returned.
Fail(st, err) == [st EXCEPT !.err = err, !.failed_at = Len(st.trace)]

Emit(st, tracks) == [st EXCEPT !.outs = @ \o tracks]

\* envelope_context.received_at, in Unix seconds.
received_at == 1600000000

\* MINIMUM_CLOCK_DRIFT, in seconds.
MINIMUM_CLOCK_DRIFT == 55 * 60

\* Config::max_secs_in_past, max_secs_in_future and max_session_secs_in_past,
\* in seconds: 30 days, one minute, 5 days.
max_secs_in_past == 2592000
max_secs_in_future == 60
max_session_secs_in_past == 432000

Abs(n) == IF n < 0 THEN 0 - n ELSE n

\* ClockDriftProcessor::new(sent_at, received).at_least(MINIMUM_CLOCK_DRIFT):
\* the drift received - sent_at of an envelope that states when it was sent,
\* taken as no drift while it is shorter than the minimum.
clock_drift(sent_at) ==
    IF sent_at = None THEN 0
    ELSE IF Abs(received_at - sent_at[1]) < MINIMUM_CLOCK_DRIFT THEN 0
    ELSE received_at - sent_at[1]

\* ClockDriftProcessor::is_drifted.
is_drifted(drift) == drift # 0

\* ClockDriftProcessor::process_timestamp / process_datetime.
process_timestamp(drift, timestamp) == timestamp + drift

IsSessionItem(item) == item.ty \in {"Session", "Sessions"}

RECURSIVE Flatten(_)
Flatten(seqs) ==
    IF seqs = <<>> THEN <<>> ELSE Head(seqs) \o Flatten(Tail(seqs))

\* A session update and a session aggregates item that parse.
Session(started, timestamp) ==
    [Item("Session", "None", 1, TRUE) EXCEPT
        !.started = Some(started), !.ts = Some(timestamp)]

Sessions(aggregates) ==
    [Item("Sessions", "None", 1, TRUE) EXCEPT !.aggregates = aggregates]

\* Variant: a session is valid up to max_secs_in_past.
is_valid_session_timestamp_as_events(timestamp) ==
    /\ ~(received_at - timestamp > max_secs_in_past)
    /\ ~(timestamp - received_at > max_secs_in_future)

\* EnvelopeProcessor::is_valid_session_timestamp.
is_valid_session_timestamp(timestamp) ==
    /\ ~(received_at - timestamp > max_session_secs_in_past)
    /\ ~(timestamp - received_at > max_secs_in_future)

\* What a session processor returns for an item: whether the item is kept,
\* the item as it leaves it, and the metrics it has appended.
SessionResult(keep, item, metrics) == [keep |-> keep, item |-> item, metrics |-> metrics]

\* Variant: an item whose metrics a prior relay has extracted is extracted
\* again.
session_extracts_again(item, metrics_config) == metrics_config.enabled

\* metrics_config.is_enabled() && !item.metrics_extracted().
session_extracts(item, metrics_config) ==
    metrics_config.enabled /\ ~item.mx

\* Variant: the sequence number is not looked at.
process_session_any_sequence(item, metrics_config, drift) ==
    IF ~item.ok THEN SessionResult(FALSE, item, <<>>)
    ELSE
      LET started == IF is_drifted(drift)
                     THEN process_timestamp(drift, item.started[1]) ELSE item.started[1]
          corrected == IF is_drifted(drift)
                       THEN process_timestamp(drift, item.ts[1]) ELSE item.ts[1]
          timestamp == IF corrected < started THEN started ELSE corrected
          extract == session_extracts(item, metrics_config)
          after == [item EXCEPT !.started = Some(started), !.ts = Some(timestamp),
                                !.mx = @ \/ extract]
      IN  IF ~is_valid_session_timestamp(timestamp) \/ ~is_valid_session_timestamp(started)
          THEN SessionResult(FALSE, item, <<>>)
          ELSE IF ~item.release_ok THEN SessionResult(FALSE, item, <<>>)
          ELSE SessionResult(~(metrics_config.drop /\ after.mx), after,
                             IF extract THEN <<"session">> ELSE <<>>)

\* EnvelopeProcessor::process_session.
process_session(item, metrics_config, drift) ==
    IF ~item.ok THEN SessionResult(FALSE, item, <<>>)
    ELSE IF item.seq_max THEN SessionResult(FALSE, item, <<>>)
    ELSE
      LET started == IF is_drifted(drift)
                     THEN process_timestamp(drift, item.started[1]) ELSE item.started[1]
          corrected == IF is_drifted(drift)
                       THEN process_timestamp(drift, item.ts[1]) ELSE item.ts[1]
          timestamp == IF corrected < started THEN started ELSE corrected
          extract == session_extracts(item, metrics_config)
          after == [item EXCEPT !.started = Some(started), !.ts = Some(timestamp),
                                !.mx = @ \/ extract]
      IN  IF ~is_valid_session_timestamp(timestamp) \/ ~is_valid_session_timestamp(started)
          THEN SessionResult(FALSE, item, <<>>)
          ELSE IF ~item.release_ok THEN SessionResult(FALSE, item, <<>>)
          ELSE SessionResult(~(metrics_config.drop /\ after.mx), after,
                             IF extract THEN <<"session">> ELSE <<>>)

\* EnvelopeProcessor::process_session_aggregates. The payload is written
\* anew only if the aggregates were corrected for drift; the metrics are
\* extracted from the aggregates that are valid.
process_session_aggregates(item, metrics_config, drift) ==
    IF ~item.ok THEN SessionResult(FALSE, item, <<>>)
    ELSE
      LET corrected == [k \in 1..Len(item.aggregates) |->
                          IF is_drifted(drift)
                          THEN process_timestamp(drift, item.aggregates[k])
                          ELSE item.aggregates[k]]
          aggregates == SelectSeq(corrected, is_valid_session_timestamp)
          extract == session_extracts(item, metrics_config)
          after == [item EXCEPT
                       !.aggregates = IF is_drifted(drift) THEN aggregates ELSE @,
                       !.mx = @ \/ extract]
      IN  IF aggregates = <<>> THEN SessionResult(FALSE, item, <<>>)
          ELSE IF ~item.release_ok THEN SessionResult(FALSE, item, <<>>)
          ELSE SessionResult(~(metrics_config.drop /\ after.mx), after,
                             IF extract THEN [k \in 1..Len(aggregates) |-> "session"]
                             ELSE <<>>)

\* The closure of retain_items in process_sessions.
session_result(item, metrics_config, drift) ==
    CASE item.ty = "Session" -> process_session(item, metrics_config, drift)
      [] item.ty = "Sessions" -> process_session_aggregates(item, metrics_config, drift)
      [] OTHER -> SessionResult(TRUE, item, <<>>)

\* EnvelopeProcessor::process_sessions.
process_sessions(st) ==
    LET metrics_config == st.project_state.session_metrics
        drift == clock_drift(st.sent_at)
        results == [k \in 1..Len(st.envelope) |->
                       session_result(st.envelope[k], metrics_config, drift)]
        kept == SelectSeq(results, LAMBDA r : r.keep)
    IN  Ran([st EXCEPT
               !.envelope = [k \in 1..Len(kept) |-> kept[k].item],
               !.extracted_metrics =
                   @ \o Flatten([k \in 1..Len(results) |-> results[k].metrics])],
            "process_sessions")

IsClientReport(item) == item.ty = "ClientReport"

\* Variant: a client report that does not parse is kept.
NotClientReport_or_invalid(item) == item.ty # "ClientReport" \/ ~item.ok

\* The closure of retain_items in process_client_reports, for the items it
\* keeps.
NotClientReport(item) == item.ty # "ClientReport"

\* One discarded-event entry of a client report.
Entry(field, reason, category, quantity) ==
    [field |-> field, reason |-> reason, category |-> category, quantity |-> quantity]

\* Fifty bytes.
Fifty == "xxxxxxxxxxxxxxxxxxxxxxxxxxxxxxxxxxxxxxxxxxxxxxxxxx"

\* Reasons of 200 and of 201 bytes.
Reason200 == Fifty \o Fifty \o Fifty \o Fifty
Reason201 == Reason200 \o "x"

\* The reasons of the model, in the byte order of str.
Reasons ==
    << "", "Sampled:", "Sampled:+5", "Sampled:007", "Sampled:123",
       "Sampled:18446744073709551615", "Sampled:18446744073709551616",
       "Sampled:foo", "adsf", "error-message", "foo_reason", "queue_full",
       Reason200, Reason201 >>

\* FilterStatKey::try_from succeeds for the names of the filters.
FilterStatKeys == {"error-message"}

\* str::strip_prefix: the rest of the string, or none.
strip_prefix(str, prefix) ==
    IF Len(str) >= Len(prefix) /\ SubSeq(str, 1, Len(prefix)) = prefix
    THEN [some |-> TRUE, rest |-> SubSeq(str, Len(prefix) + 1, Len(str))]
    ELSE [some |-> FALSE, rest |-> ""]

DigitChars == <<"0", "1", "2", "3", "4", "5", "6", "7", "8", "9">>

IsDigit(c) == \E d \in 1..10 : DigitChars[d] = c

\* The value of a decimal digit.
DigitValue(c) == (CHOOSE d \in 1..10 : DigitChars[d] = c) - 1

RECURSIVE StripZeros(_)
\* A string of digits without its leading zeros ("0" for zero).
StripZeros(digits) ==
    IF Len(digits) > 1 /\ SubSeq(digits, 1, 1) = "0"
    THEN StripZeros(SubSeq(digits, 2, Len(digits)))
    ELSE digits

RECURSIVE DecimalLeq(_, _)
\* a <= b for two numbers written without leading zeros.
DecimalLeq(a, b) ==
    IF Len(a) # Len(b) THEN Len(a) < Len(b)
    ELSE IF a = "" THEN TRUE
    ELSE LET x == DigitValue(SubSeq(a, 1, 1))
             y == DigitValue(SubSeq(b, 1, 1))
         IN  IF x # y THEN x < y
             ELSE DecimalLeq(SubSeq(a, 2, Len(a)), SubSeq(b, 2, Len(b)))

\* The largest id a RuleId holds: that of an unsigned 64-bit integer.
RuleIdMax == "18446744073709551615"

\* str::parse for an unsigned integer: an optional plus sign and at least one
\* decimal digit, of a value the type holds. The number is written without
\* sign and leading zeros; "error" stands for Err(ParseIntError).
parse_id(str) ==
    LET digits == IF Len(str) > 0 /\ SubSeq(str, 1, 1) = "+"
                  THEN SubSeq(str, 2, Len(str)) ELSE str
    IN  IF digits = "" THEN "error"
        ELSE IF \E k \in 1..Len(digits) : ~IsDigit(SubSeq(digits, k, k)) THEN "error"
        ELSE IF ~DecimalLeq(StripZeros(digits), RuleIdMax) THEN "error"
        ELSE StripZeros(digits)

\* Option<ReasonCode> in an outcome of a client report, as Rust prints it.
NoReasonCode == "None"
SomeReasonCode(reason) == "Some(" \o reason \o ")"

\* Variant: every reason with the prefix "Sampled:" is taken as a rule id.
outcome_from_parts_any_id(field, reason) ==
    CASE field = "FilteredSampling" ->
            IF strip_prefix(reason, "Sampled:").some
            THEN Outcome("FilteredSampling", strip_prefix(reason, "Sampled:").rest)
            ELSE NoOutcome
      [] field = "ClientDiscard" -> Outcome("ClientDiscard", reason)
      [] field = "Filtered" ->
            IF reason \in FilterStatKeys THEN Outcome("Filtered", reason)
            ELSE NoOutcome
      [] field = "RateLimited" ->
            Outcome("RateLimited", IF reason = "" THEN NoReasonCode
                                   ELSE SomeReasonCode(reason))
      [] OTHER -> NoOutcome

\* outcome_from_parts: NoOutcome stands for Err(()).
outcome_from_parts(field, reason) ==
    CASE field = "FilteredSampling" ->
            LET rule_id == strip_prefix(reason, "Sampled:")
            IN  IF rule_id.some /\ parse_id(rule_id.rest) # "error"
                THEN Outcome("FilteredSampling", parse_id(rule_id.rest))
                ELSE NoOutcome
      [] field = "ClientDiscard" -> Outcome("ClientDiscard", reason)
      [] field = "Filtered" ->
            IF reason \in FilterStatKeys THEN Outcome("Filtered", reason)
            ELSE NoOutcome
      [] field = "RateLimited" ->
            Outcome("RateLimited", IF reason = "" THEN NoReasonCode
                                   ELSE SomeReasonCode(reason))
      [] OTHER -> NoOutcome

EntryKey(e) == <<e.field, e.reason, e.category>>

\* Variant: an entry of a key the map already holds is not added to it.
SumQuantity_first(entries) ==
    IF entries = <<>> THEN 0 ELSE Head(entries).quantity

RECURSIVE SumQuantity(_)
\* *output_events.entry(key).or_insert(0) += quantity, over the entries of
\* one key.
SumQuantity(entries) ==
    IF entries = <<>> THEN 0 ELSE Head(entries).quantity + SumQuantity(Tail(entries))

\* Order of the BTreeMap keys (ClientReportField, reason, category).
FieldRank(f) ==
    CASE f = "Filtered" -> 0 [] f = "FilteredSampling" -> 1
      [] f = "RateLimited" -> 2 [] OTHER -> 3

ReasonRank(r) ==
    IF \E k \in 1..Len(Reasons) : Reasons[k] = r
    THEN CHOOSE k \in 1..Len(Reasons) : Reasons[k] = r
    ELSE Len(Reasons) + 1

CategoryRank(c) ==
    CASE c = "Error" -> 1 [] c = "Transaction" -> 2 [] c = "Attachment" -> 4
      [] c = "Profile" -> 6 [] OTHER -> 0

KeyRank(k) == FieldRank(k[1]) * 1000 + ReasonRank(k[2]) * 10 + CategoryRank(k[3])

RECURSIVE SortedKeys(_)
SortedKeys(keys) ==
    IF keys = {} THEN <<>>
    ELSE LET k == CHOOSE x \in keys : \A y \in keys : KeyRank(x) <= KeyRank(y)
         IN  <<k>> \o SortedKeys(keys \ {k})

\* Variant: the gate looks at emit_client_outcomes only.
client_outcomes_disabled_partly(cfg) == ~cfg.emit_client_outcomes

\* The gate of process_client_reports.
client_outcomes_disabled(cfg) == ~cfg.emit_outcomes \/ ~cfg.emit_client_outcomes

\* Variant: a reason of 200 bytes is overlong already.
overlong_reason_at_200(e) == Len(e.reason) >= 200

\* discarded_event.reason.len() > 200: the entry is ignored.
overlong_reason(e) == Len(e.reason) > 200

\* Variant: the timestamp of the last report that states one.
report_timestamp_last(parsed) ==
    LET stamped == SelectSeq(parsed, LAMBDA i : i.ts # None)
    IN  IF stamped = <<>> THEN None ELSE stamped[Len(stamped)].ts

\* timestamp.get_or_insert(ts) over the reports in their order: the
\* timestamp of the first report that states one.
report_timestamp(parsed) ==
    LET stamped == SelectSeq(parsed, LAMBDA i : i.ts # None)
    IN  IF stamped = <<>> THEN None ELSE Head(stamped).ts

\* A TrackOutcome message with its timestamp.
TrackAt(src, outcome, category, quantity, timestamp) ==
    [src |-> src, outcome |-> outcome, category |-> category, quantity |-> quantity,
     timestamp |-> timestamp]

\* EnvelopeProcessor::process_client_reports.
process_client_reports(st, cfg) ==
    IF client_outcomes_disabled(cfg)
    THEN Ran(IF cfg.processing
             THEN [st EXCEPT !.envelope = Retain(@, NotClientReport)]
             ELSE st,
             "process_client_reports")
    ELSE
      LET drift == clock_drift(st.sent_at)
          reports == SelectSeq(st.envelope, IsClientReport)
          parsed == SelectSeq(reports, LAMBDA i : i.ok)
          input_events == Flatten([k \in 1..Len(parsed) |-> parsed[k].entries])
          kept == SelectSeq(input_events, LAMBDA e : ~overlong_reason(e))
          output_events == {EntryKey(kept[k]) : k \in 1..Len(kept)}
          quantity(key) == SumQuantity(SelectSeq(kept, LAMBDA e : EntryKey(e) = key))
          stated == report_timestamp(parsed)
          timestamp0 == IF stated = None THEN received_at ELSE stated[1]
          timestamp == IF is_drifted(drift)
                       THEN process_timestamp(drift, timestamp0) ELSE timestamp0
          sorted == SortedKeys(output_events)
          decodable == SelectSeq(sorted,
                          LAMBDA key : outcome_from_parts(key[1], key[2]) # NoOutcome)
          tracks == [k \in 1..Len(decodable) |->
                       TrackAt("client_report",
                               outcome_from_parts(decodable[k][1], decodable[k][2]),
                               decodable[k][3], quantity(decodable[k]), timestamp)]
          removed == [st EXCEPT !.envelope = Retain(@, NotClientReport)]
      IN  Ran(IF \/ output_events = {}
                 \/ received_at - timestamp > max_secs_in_past
                 \/ timestamp - received_at > max_secs_in_future
              THEN removed
              ELSE Emit(removed, tracks),
              "process_client_reports")

\* Variant: a user report that does not parse is kept as it is.
user_report_parses_any(item) == item.ok \/ ~item.ok

\* serde_json::from_slice::<UserReport> succeeds.
user_report_parses(item) == item.ok

\* EnvelopeProcessor::process_user_reports: a report that parses gets the
\* serialization of the typed report as its payload.
process_user_reports(st) ==
    LET kept == Retain(st.envelope,
                       LAMBDA i : i.ty # "UserReport" \/ user_report_parses(i))
    IN  Ran([st EXCEPT !.envelope =
                [k \in 1..Len(kept) |->
                    IF kept[k].ty = "UserReport" /\ kept[k].ok
                    THEN [kept[k] EXCEPT !.extra = FALSE] ELSE kept[k]]],
            "process_user_reports")

\* The platforms parse_profile has a parser for.
ProfilePlatforms == {"android", "cocoa", "typescript", "rust"}

\* Variant: every platform is taken.
parse_profile_any_platform(item) == item.ok /\ item.body_ok

\* EnvelopeProcessor::parse_profile returns Ok: the minimal profile parses,
\* the platform has a parser and that parser accepts the payload.
parse_profile(item) ==
    item.ok /\ item.platform \in ProfilePlatforms /\ item.body_ok

\* EnvelopeProcessor::process_profiles.
process_profiles(st, cfg) ==
    LET profiling_enabled == st.project_state.profiling
        context == st.envelope_context
        Invalid(i) == /\ i.ty = "Profile" /\ profiling_enabled /\ cfg.processing
                      /\ ~parse_profile(i)
        Kept(i) == \/ i.ty # "Profile"
                   \/ profiling_enabled /\ (~cfg.processing \/ parse_profile(i))
        invalid == SelectSeq(st.envelope, Invalid)
        kept == Retain(st.envelope, Kept)
    IN  Ran(Emit([st EXCEPT !.envelope =
                     [k \in 1..Len(kept) |->
                         IF kept[k].ty = "Profile" /\ cfg.processing
                         THEN [kept[k] EXCEPT !.parsed = TRUE] ELSE kept[k]]],
                 [k \in 1..Len(invalid) |->
                     Track("process_profiles", Outcome("Invalid", "ProcessProfile"),
                           "Profile", 1)]),
            "process_profiles")

\* EnvelopeProcessor::process_replay_recordings.
process_replay_recordings(st) ==
    LET replays_enabled == st.project_state.replays
    IN  Ran([st EXCEPT !.envelope =
                Retain(@, LAMBDA i : i.ty # "ReplayRecording" \/ replays_enabled)],
            "process_replay_recordings")

---------------------------------------------------------------------------
\* The event stages.

\* Config::max_event_size of the modelled relay, in the unit of item.len.
max_event_size == 3

\* What the collaborators of one run of the pipeline answer: the single call
\* that fails (the pipeline returns at the first error, so at most one failure
\* is ever observed), the sampler's decision and the category the quota
\* service reports as limited.
Faults == {"none", "missing_project_id", "drift", "store", "filter",
           "quotas_failed", "scrub", "serialize"}
SamplingResults == {"Keep", "Drop", "NoDecision"}
QuotaResults == {"none", "event", "attachment"}
Oracles == [fault : Faults, sampling : SamplingResults, quota : QuotaResults]
\* Nothing fails, the sampler keeps, no quota is exhausted.
Benign == [fault |-> "none", sampling |-> "Keep", quota |-> "none"]

\* The rule the sampler reports when it drops.
RuleId == "r1"
\* The reason the inbound filter reports when it blocks.
FilterReason == "error-message"

NoItem == Item("None", "None", 0, FALSE)

Find(items, P(_)) ==
    LET i == FirstIndex(items, P) IN IF i = 0 THEN NoItem ELSE items[i]

IsSome(item) == item.ty # "None"

IsEventItem(i) == i.ty = "Event"
IsSecurityItem(i) == i.ty = "Security"
IsRawSecurityItem(i) == i.ty = "RawSecurity"
IsFormItem(i) == i.ty = "FormData"
IsEventPayload(i) == i.ty = "Attachment" /\ i.att = "EventPayload"
IsBreadcrumbs(i) == i.ty = "Attachment" /\ i.att = "Breadcrumbs"
IsUnrealReport(i) == i.ty = "UnrealReport"

\* ProcessEnvelopeState::creates_event.
creates_event(st) == HasItem(st.envelope, creates_event_item)

\* Variant: an event is taken to be there while the envelope has items.
has_event_by_items(st) == st.envelope # <<>>

\* ProcessEnvelopeState::has_event.
has_event(st) == st.event.present

\* Variant: a Transaction item is not taken for a duplicate.
is_duplicate_lenient(item, cfg) ==
    \/ item.ty \in {"Event", "Security", "FormData", "RawSecurity"}
    \/ item.ty = "UnrealReport" /\ cfg.processing

\* EnvelopeProcessor::is_duplicate.
is_duplicate(item, cfg) ==
    \/ item.ty \in {"Event", "Transaction", "Security", "FormData", "RawSecurity"}
    \/ item.ty = "UnrealReport" /\ cfg.processing

\* EnvelopeProcessor::expand_unreal: the report item is taken out of the
\* envelope and replaced by its crash file.
expand_unreal(st) ==
    LET report == Find(st.envelope, IsUnrealReport)
    IN  Ran(IF IsSome(report)
            THEN [st EXCEPT !.envelope =
                    Append(TakeItemBy(@, IsUnrealReport),
                           Item("Attachment", "Minidump", report.len, TRUE))]
            ELSE st,
            "expand_unreal")

\* Result<ExtractedEvent, ProcessingError> of the selected source.
Extracted(event) == [err |-> NoError, event |-> event, breadcrumbs |-> <<>>]
NotExtracted(err) == [err |-> err, event |-> NoEvent, breadcrumbs |-> <<>>]
Present(ty) == [present |-> TRUE, ty |-> ty, id |-> "none"]

\* EnvelopeProcessor::event_from_json_payload: the payload null parses to an
\* Annotated without a value.
event_from_json_payload(item, ty) ==
    IF ~item.ok THEN NotExtracted(Err("InvalidJson", ""))
    ELSE IF item.null THEN Extracted(NoEvent)
    ELSE Extracted([Present(ty) EXCEPT !.id = item.id])

\* A breadcrumb of a breadcrumbs attachment: its timestamp, if it has one,
\* and its message.
Crumb(ts, msg) == [ts |-> ts, msg |-> msg]

\* A breadcrumbs attachment with the breadcrumbs of its payload; without
\* breadcrumbs the payload is empty.
Breadcrumbs(crumbs) ==
    [Item("Attachment", "Breadcrumbs", Len(crumbs), TRUE) EXCEPT !.crumbs = crumbs]

\* EnvelopeProcessor::parse_msgpack_breadcrumbs for an item that passes the
\* size check and parses.
parse_msgpack_breadcrumbs(item) ==
    IF IsSome(item) /\ item.len > 0 THEN item.crumbs ELSE <<>>

\* The timestamp of the last breadcrumb that has one.
last_timestamp(breadcrumbs) ==
    LET timed == SelectSeq(breadcrumbs, LAMBDA b : b.ts # None)
    IN  IF timed = <<>> THEN None ELSE timed[Len(timed)].ts

\* Option<Timestamp> > Option<Timestamp>: None is below every Some.
OptionGreater(a, b) == a # None /\ (b = None \/ a[1] > b[1])

\* Variant: the two breadcrumb lists are never swapped.
merge_breadcrumbs_unsorted(item1, item2) ==
    LET breadcrumbs1 == parse_msgpack_breadcrumbs(item1)
        breadcrumbs2 == parse_msgpack_breadcrumbs(item2)
        max_length == IF Len(breadcrumbs1) > Len(breadcrumbs2)
                      THEN Len(breadcrumbs1) ELSE Len(breadcrumbs2)
        extended == breadcrumbs1 \o breadcrumbs2
    IN  IF Len(extended) > max_length
        THEN SubSeq(extended, Len(extended) - max_length + 1, Len(extended))
        ELSE extended

\* The breadcrumbs EnvelopeProcessor::event_from_attachments gives the
\* event: swap by last timestamp, extend, drain the front.
merge_breadcrumbs(item1, item2) ==
    LET parsed1 == parse_msgpack_breadcrumbs(item1)
        parsed2 == parse_msgpack_breadcrumbs(item2)
        swap == OptionGreater(last_timestamp(parsed1), last_timestamp(parsed2))
        breadcrumbs1 == IF swap THEN parsed2 ELSE parsed1
        breadcrumbs2 == IF swap THEN parsed1 ELSE parsed2
        max_length == IF Len(breadcrumbs1) > Len(breadcrumbs2)
                      THEN Len(breadcrumbs1) ELSE Len(breadcrumbs2)
        extended == breadcrumbs1 \o breadcrumbs2
    IN  IF Len(extended) > max_length
        THEN SubSeq(extended, Len(extended) - max_length + 1, Len(extended))
        ELSE extended

\* EnvelopeProcessor::event_from_attachments.
event_from_attachments(attachment_item, breadcrumbs1, breadcrumbs2) ==
    LET Used(i) == IsSome(i) /\ i.len > 0
        used == SelectSeq(<<attachment_item, breadcrumbs1, breadcrumbs2>>, Used)
        bad == SelectSeq(used, LAMBDA i : i.len > max_event_size \/ ~i.ok)
    IN  IF bad = <<>>
        THEN [Extracted(Present("Default")) EXCEPT
                 !.breadcrumbs = merge_breadcrumbs(breadcrumbs1, breadcrumbs2)]
        ELSE IF Head(bad).len > max_event_size THEN NotExtracted(Err("PayloadTooLarge", ""))
        ELSE NotExtracted(Err("InvalidMsgpack", ""))

\* The take_item_by call of extract_event that an item can satisfy, "Other"
\* if none. An item satisfies at most one of them.
ItemSlot(i) ==
    CASE IsEventItem(i)       -> "Event"
      [] IsTransactionItem(i) -> "Transaction"
      [] IsSecurityItem(i)    -> "Security"
      [] IsRawSecurityItem(i) -> "RawSecurity"
      [] IsFormItem(i)        -> "FormData"
      [] IsEventPayload(i)    -> "EventPayload"
      [] IsBreadcrumbs(i)     -> "Breadcrumbs"
      [] OTHER                -> "Other"

\* How often extract_event calls take_item_by for the slot.
SlotTakes(slot) ==
    IF slot = "Other" THEN 0 ELSE IF slot = "Breadcrumbs" THEN 2 ELSE 1

\* The n-th item of the envelope that satisfies the slot: what the n-th
\* take_item_by for the slot returns.
Taken(items, slot, n) ==
    LET matching == SelectSeq(items, LAMBDA i : ItemSlot(i) = slot)
    IN  IF Len(matching) >= n THEN matching[n] ELSE NoItem

RECURSIVE AfterTakes(_, _)
\* The envelope after all take_item_by calls of extract_event: of every
\* slot the first item (the first two breadcrumbs) is gone. seen lists the
\* slots of the items taken so far.
AfterTakes(items, seen) ==
    IF items = <<>> THEN <<>>
    ELSE LET slot == ItemSlot(Head(items))
         IN  IF Len(SelectSeq(seen, LAMBDA x : x = slot)) < SlotTakes(slot)
             THEN AfterTakes(Tail(items), Append(seen, slot))
             ELSE <<Head(items)>> \o AfterTakes(Tail(items), seen)

\* Variant: a Transaction item is preferred to an Event or Security item.
extract_result_transaction_first(items) ==
    LET event_item == Taken(items, "Event", 1)
        security_item == Taken(items, "Security", 1)
    IN  IF IsSome(Taken(items, "Transaction", 1))
        THEN event_from_json_payload(Taken(items, "Transaction", 1), "Transaction")
        ELSE IF IsSome(event_item) \/ IsSome(security_item)
        THEN event_from_json_payload(
                 IF IsSome(event_item) THEN event_item ELSE security_item, "Default")
        ELSE IF IsSome(Taken(items, "RawSecurity", 1))
        THEN IF Taken(items, "RawSecurity", 1).ok THEN Extracted(Present("Csp"))
             ELSE NotExtracted(Err("InvalidSecurityReport", ""))
        ELSE IF \/ IsSome(Taken(items, "EventPayload", 1))
                \/ IsSome(Taken(items, "Breadcrumbs", 1))
        THEN event_from_attachments(Taken(items, "EventPayload", 1),
                                    Taken(items, "Breadcrumbs", 1),
                                    Taken(items, "Breadcrumbs", 2))
        ELSE IF IsSome(Taken(items, "FormData", 1)) /\ Taken(items, "FormData", 1).ok
        THEN Extracted(Present("Default"))
        ELSE Extracted(NoEvent)

\* The event the selected source yields, or its error.
extract_result(items) ==
    LET event_item == Taken(items, "Event", 1)
        security_item == Taken(items, "Security", 1)
    IN  IF IsSome(event_item) \/ IsSome(security_item)
        THEN event_from_json_payload(
                 IF IsSome(event_item) THEN event_item ELSE security_item, "Default")
        ELSE IF IsSome(Taken(items, "Transaction", 1))
        THEN event_from_json_payload(Taken(items, "Transaction", 1), "Transaction")
        ELSE IF IsSome(Taken(items, "RawSecurity", 1))
        THEN IF Taken(items, "RawSecurity", 1).ok THEN Extracted(Present("Csp"))
             ELSE NotExtracted(Err("InvalidSecurityReport", ""))
        ELSE IF \/ IsSome(Taken(items, "EventPayload", 1))
                \/ IsSome(Taken(items, "Breadcrumbs", 1))
        THEN event_from_attachments(Taken(items, "EventPayload", 1),
                                    Taken(items, "Breadcrumbs", 1),
                                    Taken(items, "Breadcrumbs", 2))
        ELSE IF IsSome(Taken(items, "FormData", 1)) /\ Taken(items, "FormData", 1).ok
        THEN Extracted(Present("Default"))
        ELSE Extracted(NoEvent)

\* EnvelopeProcessor::extract_event.
extract_event(st, cfg) ==
    LET rest == AfterTakes(st.envelope, <<>>)
        duplicates == SelectSeq(rest, LAMBDA i : is_duplicate(i, cfg))
        taken == Ran([st EXCEPT !.envelope = rest], "extract_event")
    IN  IF duplicates # <<>> THEN Fail(taken, Err("DuplicateItem", Head(duplicates).ty))
        ELSE IF extract_result(st.envelope).err # NoError
        THEN Fail(taken, extract_result(st.envelope).err)
        ELSE [taken EXCEPT !.event = extract_result(st.envelope).event,
                           !.breadcrumbs = extract_result(st.envelope).breadcrumbs]

\* EnvelopeProcessor::process_unreal: nothing to do without an unreal context.
process_unreal(st) == Ran(st, "process_unreal")

\* EnvelopeProcessor::create_placeholders.
create_placeholders(st) ==
    LET Special(i) == i.ty = "Attachment" /\ i.att \in {"Minidump", "AppleCrashReport"}
    IN  Ran(IF HasItem(st.envelope, Special) /\ ~st.event.present
            THEN [st EXCEPT !.event = Present("Default")]
            ELSE st,
            "create_placeholders")

\* EventId::default(), the nil identifier.
NilId == "nil"

\* Variant: a missing event is an error in every mode.
finalize_event_strict(st, cfg, o) ==
    LET ran == Ran(st, "finalize_event")
        event_id == IF st.event_id = "none" THEN NilId ELSE st.event_id
        consistent == [ran EXCEPT !.event.id = event_id]
    IN  IF ~st.event.present THEN Fail(ran, Err("NoEventPayload", ""))
        ELSE IF o.fault = "drift" THEN Fail(consistent, Err("InvalidTransaction", ""))
        ELSE consistent

\* Variant: the id of the envelope is written only to a payload that states
\* none.
finalize_event_keep(st, cfg, o) ==
    LET ran == Ran(st, "finalize_event")
        event_id == IF st.event_id = "none" THEN NilId ELSE st.event_id
        consistent == IF st.event.id = "none" THEN [ran EXCEPT !.event.id = event_id]
                      ELSE ran
    IN  IF ~st.event.present
        THEN IF ~cfg.processing THEN ran ELSE Fail(ran, Err("NoEventPayload", ""))
        ELSE IF o.fault = "drift" THEN Fail(consistent, Err("InvalidTransaction", ""))
        ELSE consistent

\* EnvelopeProcessor::finalize_event.
finalize_event(st, cfg, o) ==
    LET ran == Ran(st, "finalize_event")
        \* envelope.event_id().unwrap_or_default() is written to the payload
        event_id == IF st.event_id = "none" THEN NilId ELSE st.event_id
        consistent == [ran EXCEPT !.event.id = event_id]
    IN  IF ~st.event.present
        THEN IF ~cfg.processing THEN ran ELSE Fail(ran, Err("NoEventPayload", ""))
        ELSE IF o.fault = "drift" THEN Fail(consistent, Err("InvalidTransaction", ""))
        ELSE consistent

\* EnvelopeProcessor::extract_transaction_metrics.
extract_transaction_metrics(st) ==
    LET ran == Ran(st, "extract_transaction_metrics")
    IN  IF ~st.project_state.transaction_metrics THEN ran
        ELSE IF ~st.event.present THEN Fail(ran, Err("NoEventPayload", ""))
        ELSE IF st.event.ty = "Transaction"
        THEN [ran EXCEPT !.extracted_metrics = Append(@, "transaction")]
        ELSE ran

\* Variant: the outcome is emitted for a Drop, but the pipeline goes on.
sample_event_lenient(st, o) ==
    LET ran == Ran(st, "sample_event")
    IN  IF ~st.event.present THEN ran
        ELSE IF o.sampling = "Drop"
        THEN Emit([ran EXCEPT !.sampled = o.sampling],
                  send_outcomes(st.envelope_context,
                                Outcome("FilteredSampling", RuleId), "sample_event"))
        ELSE [ran EXCEPT !.sampled = o.sampling]

\* EnvelopeProcessor::sample_event.
sample_event(st, o) ==
    LET ran == Ran(st, "sample_event")
    IN  IF ~st.event.present THEN ran
        ELSE IF o.sampling = "Drop"
        THEN Fail(Emit([ran EXCEPT !.sampled = o.sampling],
                       send_outcomes(st.envelope_context,
                                     Outcome("FilteredSampling", RuleId), "sample_event")),
                  Err("EventSampled", RuleId))
        ELSE [ran EXCEPT !.sampled = o.sampling]

\* EnvelopeProcessor::store_process_event.
store_process_event(st, o) ==
    LET ran == Ran(st, "store_process_event")
    IN  IF o.fault = "store" THEN Fail(ran, Err("InvalidTransaction", "")) ELSE ran

\* Variant: a blocked event fails the stage without an outcome.
filter_event_silent(st, o) ==
    LET ran == Ran(st, "filter_event")
    IN  IF ~st.event.present THEN Fail(ran, Err("NoEventPayload", ""))
        ELSE IF o.fault = "filter" THEN Fail(ran, Err("EventFiltered", FilterReason))
        ELSE ran

\* EnvelopeProcessor::filter_event.
filter_event(st, o) ==
    LET ran == Ran(st, "filter_event")
    IN  IF ~st.event.present THEN Fail(ran, Err("NoEventPayload", ""))
        ELSE IF o.fault = "filter"
        THEN Fail(Emit(ran, send_outcomes(st.envelope_context,
                                          Outcome("Filtered", FilterReason), "filter_event")),
                  Err("EventFiltered", FilterReason))
        ELSE ran

\* EnvelopeLimiter::enforce with Enforcement::track_outcomes (utils): what
\* is removed and which outcomes are tracked when the quota service limits
\* the event category, or the attachment category only.
enforce_limits(st, o) ==
    LET category == event_category(st)
        attachments == SumLen(SelectSeq(st.envelope, IsPlainAttachment))
        event_limited == o.quota = "event" /\ category # "None"
        attachments_limited == o.quota = "attachment" /\ attachments > 0
        limited == Outcome("RateLimited", "")
    IN  IF event_limited
        THEN Emit([st EXCEPT !.envelope = Retain(@, LAMBDA i : ~requires_event(i)),
                             !.rate_limits = TRUE,
                             !.remove_event = TRUE],
                  <<Track("enforce_quotas", limited, category, 1)>>
                  \o (IF attachments > 0
                      THEN <<Track("enforce_quotas", limited, "Attachment", attachments)>>
                      ELSE <<>>))
        ELSE IF attachments_limited
        THEN Emit([st EXCEPT !.envelope =
                      Retain(@, LAMBDA i : i.ty # "Attachment" \/ creates_event_item(i)),
                             !.rate_limits = TRUE],
                  <<Track("enforce_quotas", limited, "Attachment", attachments)>>)
        ELSE st

\* Variant: a limit on the event category leaves the extracted event in the
\* state.
enforce_quotas_keeps_event(st, cfg, o) ==
    LET ran == Ran(st, "enforce_quotas")
    IN  IF ~cfg.rate_limiter THEN ran
        ELSE IF ~st.project_state.has_quotas THEN ran
        ELSE IF o.fault = "quotas_failed" THEN Fail(ran, Err("QuotasFailed", ""))
        ELSE enforce_limits(ran, o)

\* EnvelopeProcessor::enforce_quotas.
enforce_quotas(st, cfg, o) ==
    LET ran == Ran(st, "enforce_quotas")
    IN  IF ~cfg.rate_limiter THEN ran
        ELSE IF ~st.project_state.has_quotas THEN ran
        ELSE IF o.fault = "quotas_failed" THEN Fail(ran, Err("QuotasFailed", ""))
        ELSE LET enforced == enforce_limits(ran, o)
             IN  IF enforced.remove_event
                 THEN [enforced EXCEPT !.event = NoEvent, !.breadcrumbs = <<>>]
                 ELSE enforced

\* EnvelopeProcessor::scrub_event.
scrub_event(st, o) ==
    LET ran == Ran(st, "scrub_event")
    IN  IF o.fault = "scrub" THEN Fail(ran, Err("ProcessingFailed", "")) ELSE ran

\* ItemType::from_event_type.
from_event_type(ty) ==
    IF ty = "Transaction" THEN "Transaction"
    ELSE IF ty \in {"Csp", "Hpkp", "ExpectCt", "ExpectStaple"} THEN "Security"
    ELSE "Event"

\* EnvelopeProcessor::serialize_event.
serialize_event(st, o) ==
    LET ran == Ran(st, "serialize_event")
    IN  IF o.fault = "serialize" THEN Fail(ran, Err("SerializeFailed", ""))
        ELSE [ran EXCEPT !.envelope =
                Append(@, Item(from_event_type(st.event.ty), "None", 1, TRUE))]

\* EnvelopeProcessor::scrub_attachments: payloads change, the item set does not.
scrub_attachments(st) == Ran(st, "scrub_attachments")

---------------------------------------------------------------------------
\* The pipeline driver.

\* The sampler call of process_state, with the envelope it was given and the
\* envelope it left.
RunSampler(st, o) ==
    LET after == sample_event(st, o)
    IN  [after EXCEPT !.env_before_sample = st.envelope,
                      !.env_after_sample = after.envelope]

\* One line of process_state: the stage it calls, whether the call stands in
\* an if_processing! block, and the condition of the enclosing if ("always"
\* outside of any). The lines "if_creates_event" and "if_has_event" are the
\* two conditions themselves, evaluated once where they stand.
Step(stage, processing_only, cond) ==
    [stage |-> stage, processing_only |-> processing_only, cond |-> cond]

\* Variant: profiles are processed before user reports.
Steps_swapped ==
    << Step("process_sessions", FALSE, "always"),
       Step("process_client_reports", FALSE, "always"),
       Step("process_profiles", FALSE, "always"),
       Step("process_user_reports", FALSE, "always"),
       Step("process_replay_recordings", FALSE, "always"),
       Step("if_creates_event", FALSE, "always"),
       Step("expand_unreal", TRUE, "creates_event"),
       Step("extract_event", FALSE, "creates_event"),
       Step("process_unreal", TRUE, "creates_event"),
       Step("create_placeholders", TRUE, "creates_event"),
       Step("finalize_event", FALSE, "creates_event"),
       Step("extract_transaction_metrics", TRUE, "creates_event"),
       Step("sample_event", FALSE, "creates_event"),
       Step("store_process_event", TRUE, "creates_event"),
       Step("filter_event", TRUE, "creates_event"),
       Step("enforce_quotas", TRUE, "always"),
       Step("if_has_event", FALSE, "always"),
       Step("scrub_event", FALSE, "has_event"),
       Step("serialize_event", FALSE, "has_event"),
       Step("scrub_attachments", FALSE, "always") >>

\* The body of EnvelopeProcessor::process_state, line by line.
Steps ==
    << Step("process_sessions", FALSE, "always"),
       Step("process_client_reports", FALSE, "always"),
       Step("process_user_reports", FALSE, "always"),
       Step("process_profiles", FALSE, "always"),
       Step("process_replay_recordings", FALSE, "always"),
       Step("if_creates_event", FALSE, "always"),
       Step("expand_unreal", TRUE, "creates_event"),
       Step("extract_event", FALSE, "creates_event"),
       Step("process_unreal", TRUE, "creates_event"),
       Step("create_placeholders", TRUE, "creates_event"),
       Step("finalize_event", FALSE, "creates_event"),
       Step("extract_transaction_metrics", TRUE, "creates_event"),
       Step("sample_event", FALSE, "creates_event"),
       Step("store_process_event", TRUE, "creates_event"),
       Step("filter_event", TRUE, "creates_event"),
       Step("enforce_quotas", TRUE, "always"),
       Step("if_has_event", FALSE, "always"),
       Step("scrub_event", FALSE, "has_event"),
       Step("serialize_event", FALSE, "has_event"),
       Step("scrub_attachments", FALSE, "always") >>

\* The call of one stage.
RunStage(st, stage, cfg, o) ==
    CASE stage = "process_sessions"            -> process_sessions(st)
      [] stage = "process_client_reports"      -> process_client_reports(st, cfg)
      [] stage = "process_user_reports"        -> process_user_reports(st)
      [] stage = "process_profiles"            -> process_profiles(st, cfg)
      [] stage = "process_replay_recordings"   -> process_replay_recordings(st)
      [] stage = "if_creates_event"            -> [st EXCEPT !.in_creates_event = creates_event(st)]
      [] stage = "expand_unreal"               -> expand_unreal(st)
      [] stage = "extract_event"               -> extract_event(st, cfg)
      [] stage = "process_unreal"              -> process_unreal(st)
      [] stage = "create_placeholders"         -> create_placeholders(st)
      [] stage = "finalize_event"              -> finalize_event(st, cfg, o)
      [] stage = "extract_transaction_metrics" -> extract_transaction_metrics(st)
      [] stage = "sample_event"                -> RunSampler(st, o)
      [] stage = "store_process_event"         -> store_process_event(st, o)
      [] stage = "filter_event"                -> filter_event(st, o)
      [] stage = "enforce_quotas"              -> enforce_quotas(st, cfg, o)
      [] stage = "if_has_event"                -> [st EXCEPT !.in_has_event = has_event(st)]
      [] stage = "scrub_event"                 -> scrub_event(st, o)
      [] stage = "serialize_event"             -> serialize_event(st, o)
      [] OTHER                                 -> scrub_attachments(st)

\* Variant: the line runs although an earlier stage returned an error.
RunStep_unchecked(st, step, cfg, o) ==
    IF step.processing_only /\ ~cfg.processing THEN st
    ELSE IF step.cond = "creates_event" /\ ~st.in_creates_event THEN st
    ELSE IF step.cond = "has_event" /\ ~st.in_has_event THEN st
    ELSE RunStage(st, step.stage, cfg, o)

\* One line of process_state is reached: not after an earlier stage returned
\* an error through the ? operator, not in an if_processing! block unless
\* processing is enabled, not in an if block whose condition was false.
RunStep(st, step, cfg, o) ==
    IF st.err # NoError THEN st
    ELSE IF step.processing_only /\ ~cfg.processing THEN st
    ELSE IF step.cond = "creates_event" /\ ~st.in_creates_event THEN st
    ELSE IF step.cond = "has_event" /\ ~st.in_has_event THEN st
    ELSE RunStage(st, step.stage, cfg, o)

RECURSIVE RunSteps(_, _, _, _)
\* The lines of process_state in sequence.
RunSteps(st, steps, cfg, o) ==
    IF steps = <<>> THEN st
    ELSE RunSteps(RunStep(st, Head(steps), cfg, o), Tail(steps), cfg, o)

\* EnvelopeProcessor::process_state.
process_state(st, cfg, o) == RunSteps(st, Steps, cfg, o)

\* EnvelopeProcessor::prepare_state (after the project id was resolved).
\* input, trace, outs, failed_at, sampled and env_*_sample are history
\* fields; event_id and sent_at are the headers of the envelope ("none" and
\* None if absent); in_creates_event and in_has_event hold the two conditions of
\* process_state once they have been evaluated.
prepare_state(envelope, event_id, sent_at, project_state) ==
    [envelope |-> envelope,
     event_id |-> event_id,
     sent_at |-> sent_at,
     input |-> envelope,
     failed_at |-> 0,
     in_creates_event |-> FALSE,
     in_has_event |-> FALSE,
     event |-> NoEvent,
     breadcrumbs |-> <<>>,
     rate_limits |-> FALSE,
     extracted_metrics |-> <<>>,
     project_state |-> project_state,
     envelope_context |-> EnvelopeSummary(envelope),
     remove_event |-> FALSE,
     err |-> NoError,
     trace |-> <<>>,
     outs |-> <<>>,
     sampled |-> "none",
     env_before_sample |-> <<>>,
     env_after_sample |-> <<>>]

\* What one run of EnvelopeProcessor::process leaves behind: the response to
\* the caller (kind, err, envelope, rate_limits), the TrackOutcome messages
\* (outs) and the InsertMetrics message (inserted, empty if none was sent),
\* together with the final ProcessEnvelopeState.
ProcessResult(kind, err, envelope, st, outs, inserted) ==
    [kind |-> kind, err |-> err, envelope |-> envelope,
     rate_limits |-> st.rate_limits, outs |-> outs, inserted |-> inserted,
     state |-> st]

\* EnvelopeProcessor::process.
process(envelope, event_id, sent_at, project_state, cfg, o) ==
    LET state0 == prepare_state(envelope, event_id, sent_at, project_state)
        envelope_context == state0.envelope_context
        state == process_state(state0, cfg, o)
        err == state.err
    IN  IF o.fault = "missing_project_id"
        THEN ProcessResult("Err", Err("MissingProjectId", ""), <<>>, state0, <<>>, <<>>)
        ELSE IF err = NoError
        THEN ProcessResult("Ok", NoError, state.envelope, state,
                           state.outs, state.extracted_metrics)
        ELSE ProcessResult("Err", err, <<>>, state,
                 state.outs \o (IF to_outcome(err) # NoOutcome
                                THEN send_outcomes(envelope_context, to_outcome(err), "process")
                                ELSE <<>>),
                 IF should_keep_metrics(err) THEN state.extracted_metrics ELSE <<>>)

---------------------------------------------------------------------------
\* Configurations, project states and envelopes of the model.

\* Config: a forwarding relay that compresses request bodies, a forwarding
\* relay that does not and has client outcomes disabled, a processing relay
\* with a rate limiter and a store forwarder.
Configs ==
    { [processing |-> FALSE, rate_limiter |-> FALSE, emit_outcomes |-> TRUE,
       emit_client_outcomes |-> TRUE, http_encoding |-> "gzip"],
      [processing |-> FALSE, rate_limiter |-> FALSE, emit_outcomes |-> TRUE,
       emit_client_outcomes |-> FALSE, http_encoding |-> "identity"],
      [processing |-> TRUE, rate_limiter |-> TRUE, emit_outcomes |-> TRUE,
       emit_client_outcomes |-> TRUE, http_encoding |-> "identity"] }

\* ProjectState: the features and the parts of the project config the
\* pipeline reads.
ProjectStates ==
    { [profiling |-> FALSE, replays |-> FALSE,
       session_metrics |-> [enabled |-> FALSE, drop |-> FALSE],
       transaction_metrics |-> FALSE, has_quotas |-> FALSE],
      [profiling |-> TRUE, replays |-> TRUE,
       session_metrics |-> [enabled |-> TRUE, drop |-> FALSE],
       transaction_metrics |-> TRUE, has_quotas |-> TRUE] }

ClientReportItem ==
    [Item("ClientReport", "None", 1, TRUE) EXCEPT
        !.ts = Some(received_at),
        !.entries = <<Entry("ClientDiscard", "queue_full", "Error", 2)>>]

\* The event_id header the ingest path gives an envelope.
EnvelopeId == "a"

\* The envelopes the endpoint queues: items, whether the envelope carries a
\* trace context, and the event_id header. The ingest path sets the header
\* of every envelope with an item that requires an event (the comment and
\* the debug_assert in finalize_event).
Envelopes ==
    { [items |-> <<Item("Event", "None", 1, TRUE)>>, trace |-> FALSE,
       event_id |-> EnvelopeId],
      [items |-> <<Item("Transaction", "None", 1, TRUE),
                   Item("Profile", "None", 1, FALSE),
                   Item("Attachment", "Attachment", 2, TRUE)>>, trace |-> TRUE,
       event_id |-> EnvelopeId],
      [items |-> <<Item("Event", "None", 1, TRUE),
                   Session(received_at, received_at),
                   Item("Metrics", "None", 1, TRUE)>>, trace |-> FALSE,
       event_id |-> EnvelopeId],
      [items |-> <<Item("Event", "None", 1, FALSE),
                   Item("Attachment", "Attachment", 1, TRUE)>>, trace |-> FALSE,
       event_id |-> EnvelopeId],
      [items |-> <<ClientReportItem>>, trace |-> FALSE, event_id |-> "none"],
      [items |-> <<Item("Metrics", "None", 1, TRUE),
                   Item("MetricBuckets", "None", 1, TRUE)>>, trace |-> FALSE,
       event_id |-> "none"] }

---------------------------------------------------------------------------
\* EnvelopeManager.

NoResponse == [kind |-> "none"]

\* Err(ProjectError) as the answer of the project cache.
ProjectFailed == [kind |-> "ProjectFailed"]

\* A HandleEnvelope message and the state of the future that handles it.
\*   envelope, trace, event_id, sent_at: the items and three headers of the
\*          envelope (the envelopes the endpoint queues here state no sent_at)
\*   phase: queued (notified, not yet handled), check, sample_trace,
\*          get_state, processing, sending (the stage the future awaits), done
\*   context: the EnvelopeContext of the future
\*   result: the error the future ended with, Accepted, or Pending
\*   processed: what the processor left behind for the ProcessEnvelope message
\*   upstream: none, encoding (EncodeEnvelope sent to the processor),
\*          encode_failed, handed (request given to the upstream or the store)
\*   outs, inserted, limits: the TrackOutcome, InsertMetrics and
\*          UpdateRateLimits messages sent for this envelope
NewHandle(items, trace, event_id) ==
    [envelope |-> items, trace |-> trace, event_id |-> event_id,
     sent_at |-> None, phase |-> "queued",
     original |-> EnvelopeSummary(items), context |-> NoSummary,
     result |-> Err("Pending", ""), project_state |-> NoResponse,
     processed |-> NoResponse, upstream |-> "none", timeout_phase |-> "none",
     outs |-> <<>>, inserted |-> <<>>, limits |-> FALSE]

\* Variant: the buffer counts as full only once it is exceeded.
BufferFull_exceeded(active) == envelope_buffer_size < active

\* The check of the envelope buffer in Handler<QueueEnvelope>.
BufferFull(active) == envelope_buffer_size <= active

\* The Ok reply of QueueEnvelope with the event id of the envelope ("none"
\* for an envelope without one).
OkReply(event_id) == "Ok(" \o event_id \o ")"

\* Variant: the items that are no metrics are queued in one envelope.
QueuedEnvelopes_unsplit(items) ==
    LET rest == SelectSeq(items, LAMBDA i : ~is_metric(i))
    IN  IF rest # <<>> THEN <<rest>> ELSE <<>>

\* The envelopes Handler<QueueEnvelope> queues for the non-metric items: the
\* items that require an event split off first, then the remaining items.
QueuedEnvelopes(items) ==
    LET rest == SelectSeq(items, LAMBDA i : ~is_metric(i))
    IN  IF SplitMatches(rest, requires_event)
        THEN <<SelectSeq(rest, requires_event),
               SelectSeq(rest, LAMBDA i : ~requires_event(i))>>
        ELSE IF rest # <<>> THEN <<rest>> ELSE <<>>

\* Handler<QueueEnvelope> for EnvelopeManager.
QueueEnvelope(env) ==
    /\ budget > 0
    /\ budget' = budget - 1
    /\ IF BufferFull(active_envelopes)
       THEN /\ last_reply' = "TooManyEnvelopes"
            /\ UNCHANGED <<active_envelopes, handles, metric_msgs>>
       ELSE LET metric_items == SelectSeq(env.items, is_metric)
                queued == QueuedEnvelopes(env.items)
            IN  /\ metric_msgs' = IF metric_items # <<>>
                                  THEN Append(metric_msgs, metric_items)
                                  ELSE metric_msgs
                /\ handles' = handles \o
                       [k \in 1..Len(queued) |->
                            NewHandle(queued[k], env.trace, env.event_id)]
                /\ active_envelopes' = active_envelopes + Len(queued)
                /\ last_reply' = OkReply(env.event_id)
    /\ UNCHANGED <<project, config, adversity, mailbox, worker>>

\* Variant: the future goes on after its end.
Finished_not_done(rec, result, tracks) ==
    [rec EXCEPT !.result = result, !.outs = @ \o tracks]

\* The end of the future of Handler<HandleEnvelope>: the final `then`
\* decrements active_envelopes.
Finished(rec, result, tracks) ==
    [rec EXCEPT !.phase = "done", !.result = result, !.outs = @ \o tracks]

Internal == Outcome("Invalid", "Internal")

\* Handler<HandleEnvelope>: the future is created and sends CheckEnvelope.
StartHandle(h) ==
    /\ handles[h].phase = "queued"
    /\ handles' = [handles EXCEPT ![h].phase = "check",
                                  ![h].context = EnvelopeSummary(handles[h].envelope)]
    /\ UNCHANGED <<project, config, active_envelopes, metric_msgs, budget, adversity, last_reply,
                   mailbox, worker>>

\* Variant: no envelope is passed to the trace sampling.
NeedsTraceSampling_never(rec) == FALSE

\* utils::sample_trace decides only for an envelope with a trace context and
\* a transaction item.
NeedsTraceSampling(rec) == rec.trace /\ HasItem(rec.envelope, IsTransactionItem)

\* The response to CheckEnvelope arrives: the project could not be resolved,
\* the envelope is rejected, all of it is rate limited (the project has
\* tracked the outcomes), or it is returned.
CheckResponse(h, r) ==
    LET rec == handles[h] IN
    /\ rec.phase = "check"
    /\ r \in {"ProjectFailed", "Rejected", "RateLimited", "Ok"}
    /\ r # "Ok" => adversity
    /\ IF r = "Ok"
       THEN /\ handles' = [handles EXCEPT
                   ![h].context = EnvelopeSummary(rec.envelope),
                   ![h].phase = IF NeedsTraceSampling(rec) THEN "sample_trace"
                                ELSE "get_state"]
            /\ UNCHANGED active_envelopes
       ELSE /\ handles' = [handles EXCEPT ![h] =
                   CASE r = "ProjectFailed" ->
                          Finished(rec, Err("ProjectFailed", ""),
                                   send_outcomes(rec.context, Internal, "check"))
                     [] r = "Rejected" ->
                          Finished(rec, Err("Rejected", "ProjectId"),
                                   send_outcomes(rec.context,
                                                 Outcome("Invalid", "ProjectId"), "check"))
                     [] OTHER ->
                          Finished(rec, Err("RateLimited", ""),
                                   send_outcomes(rec.context,
                                                 Outcome("RateLimited", ""), "project")) ]
            /\ active_envelopes' = active_envelopes - 1
    /\ UNCHANGED <<project, config, metric_msgs, budget, adversity, last_reply, mailbox, worker>>

\* utils::sample_trace answers: the trace is dropped by a rule (sample_trace
\* has tracked the outcome) or the envelope is returned.
SampleTraceResponse(h, r) ==
    LET rec == handles[h] IN
    /\ rec.phase = "sample_trace"
    /\ r \in {"Keep", "Drop"}
    /\ r # "Keep" => adversity
    /\ IF r = "Keep"
       THEN /\ handles' = [handles EXCEPT
                   ![h].context = EnvelopeSummary(rec.envelope),
                   ![h].phase = "get_state"]
            /\ UNCHANGED active_envelopes
       ELSE /\ handles' = [handles EXCEPT ![h] =
                   Finished(rec, Err("TraceSampled", RuleId),
                            send_outcomes(rec.context,
                                          Outcome("FilteredSampling", RuleId),
                                          "sample_trace"))]
            /\ active_envelopes' = active_envelopes - 1
    /\ UNCHANGED <<project, config, metric_msgs, budget, adversity, last_reply, mailbox, worker>>

\* The response to GetProjectState arrives; with a state, ProcessEnvelope is
\* sent to the processor.
ProjectStateResponse(h, r) ==
    LET rec == handles[h] IN
    /\ rec.phase = "get_state"
    /\ r \in {ProjectFailed} \cup ProjectStates
    /\ r = ProjectFailed => adversity
    /\ IF r = ProjectFailed
       THEN /\ handles' = [handles EXCEPT ![h] =
                   Finished(rec, Err("ProjectFailed", ""),
                            send_outcomes(rec.context, Internal, "get_state"))]
            /\ active_envelopes' = active_envelopes - 1
            /\ UNCHANGED mailbox
       ELSE /\ handles' = [handles EXCEPT ![h].project_state = r,
                                          ![h].phase = "processing"]
            /\ mailbox' = Append(mailbox, [type |-> "ProcessEnvelope", h |-> h])
            /\ UNCHANGED active_envelopes
    /\ UNCHANGED <<project, config, metric_msgs, budget, adversity, last_reply, worker>>

---------------------------------------------------------------------------
\* EnvelopeProcessor: one worker thread.

Idle == [busy |-> FALSE]

\* The worker takes the next message. A ProcessEnvelope message whose
\* request future has been dropped (the handling has ended) is skipped by
\* the mailbox; EncodeEnvelope is sent with do_send and always handled.
WorkerStart ==
    /\ ~worker.busy
    /\ mailbox # <<>>
    /\ LET msg == Head(mailbox)
           rec == handles[msg.h]
       IN  /\ msg.type = "ProcessEnvelope" => rec.phase = "processing"
           /\ worker' = [busy |-> TRUE, type |-> msg.type, h |-> msg.h,
                         envelope |-> rec.envelope,
                         event_id |-> rec.event_id,
                         sent_at |-> rec.sent_at,
                         project_state |-> rec.project_state]
    /\ mailbox' = Tail(mailbox)
    /\ UNCHANGED <<project, config, active_envelopes, handles, metric_msgs, budget, adversity,
                   last_reply>>

WorkerSkip ==
    /\ ~worker.busy
    /\ mailbox # <<>>
    /\ Head(mailbox).type = "ProcessEnvelope"
    /\ handles[Head(mailbox).h].phase # "processing"
    /\ mailbox' = Tail(mailbox)
    /\ UNCHANGED <<project, config, active_envelopes, handles, metric_msgs, budget, adversity,
                   last_reply, worker>>

\* Handler<ProcessEnvelope> for EnvelopeProcessor returns: the outcomes and
\* the metrics have been sent, the response goes back to the request future.
\* The sends and the return are one step here; a Timeout taken after this
\* step and before ProcessedResponse is the expiry passing while the handler
\* is between its sends and its return.
WorkerProcess(o) ==
    /\ worker.busy
    /\ worker.type = "ProcessEnvelope"
    /\ o \in Oracles
    /\ o # Benign => adversity
    /\ LET res == process(worker.envelope, worker.event_id, worker.sent_at,
                              worker.project_state, config, o)
       IN  handles' = [handles EXCEPT
               ![worker.h].processed = [res EXCEPT !.outs = <<>>],
               ![worker.h].outs = @ \o res.outs,
               ![worker.h].inserted = res.inserted]
    /\ worker' = Idle
    /\ UNCHANGED <<project, config, active_envelopes, metric_msgs, budget, adversity, last_reply,
                   mailbox>>

\* Handler<EncodeEnvelope> for EnvelopeProcessor: the body is encoded and
\* the request is sent to the upstream, or the error is sent back.
WorkerEncode(ok) ==
    /\ worker.busy
    /\ worker.type = "EncodeEnvelope"
    /\ ok \in BOOLEAN
    /\ ~ok => adversity
    /\ handles' = [handles EXCEPT ![worker.h].upstream =
                      IF ok THEN "handed" ELSE "encode_failed"]
    /\ worker' = Idle
    /\ UNCHANGED <<project, config, active_envelopes, metric_msgs, budget, adversity, last_reply,
                   mailbox>>

---------------------------------------------------------------------------
\* EnvelopeManager, continued.

\* The processor's response arrives. An error ends the handling. Otherwise
\* new rate limits are forwarded, an empty envelope ends the handling with
\* RateLimited, and a non-empty one is passed to send_envelope: to the store
\* forwarder, or serialized and sent to the upstream, through the processor
\* if the body is to be compressed.
ProcessedResponse(h, build_ok) ==
    LET rec == handles[h]
        res == rec.processed
    IN
    /\ rec.phase = "processing"
    /\ res.kind # "none"
    /\ build_ok \in BOOLEAN
    /\ ~build_ok => adversity
    /\ IF res.kind = "Err"
       THEN /\ build_ok
            /\ handles' = [handles EXCEPT ![h] = Finished(rec, res.err, <<>>)]
            /\ active_envelopes' = active_envelopes - 1
            /\ UNCHANGED mailbox
       ELSE IF res.envelope = <<>>
       THEN /\ build_ok
            /\ handles' = [handles EXCEPT ![h] =
                   [Finished(rec, Err("RateLimited", ""), <<>>) EXCEPT
                       !.limits = res.rate_limits]]
            /\ active_envelopes' = active_envelopes - 1
            /\ UNCHANGED mailbox
       ELSE LET sent == [rec EXCEPT !.limits = res.rate_limits,
                                    !.envelope = res.envelope,
                                    !.context = EnvelopeSummary(res.envelope),
                                    !.phase = "sending"]
            IN  IF config.processing
                THEN /\ build_ok
                     /\ handles' = [handles EXCEPT ![h] =
                                        [sent EXCEPT !.upstream = "handed"]]
                     /\ UNCHANGED <<active_envelopes, mailbox>>
                ELSE IF ~build_ok
                THEN /\ handles' = [handles EXCEPT ![h] =
                            Finished(sent, Err("EnvelopeBuildFailed", ""),
                                     send_outcomes(sent.context, Internal, "send"))]
                     /\ active_envelopes' = active_envelopes - 1
                     /\ UNCHANGED mailbox
                ELSE IF config.http_encoding = "identity"
                THEN /\ handles' = [handles EXCEPT ![h] =
                                        [sent EXCEPT !.upstream = "handed"]]
                     /\ UNCHANGED <<active_envelopes, mailbox>>
                ELSE /\ handles' = [handles EXCEPT ![h] =
                                        [sent EXCEPT !.upstream = "encoding"]]
                     /\ mailbox' = Append(mailbox, [type |-> "EncodeEnvelope", h |-> h])
                     /\ UNCHANGED active_envelopes
    /\ UNCHANGED <<project, config, metric_msgs, budget, adversity, last_reply, worker>>

\* The error a send result maps to, NoError for success.
SendResults ==
    {"Ok", "ScheduleFailed", "StoreFailed", "UpstreamRequestFailed",
     "UpstreamRequestFailedReceived"}

\* The result of send_envelope arrives.
SendResult(h, r) ==
    LET rec == handles[h] IN
    /\ rec.phase = "sending"
    /\ r \in SendResults
    /\ r # "Ok" => adversity
    /\ \/ /\ rec.upstream = "encode_failed"
          /\ r = "Ok"
          /\ handles' = [handles EXCEPT ![h] =
                 Finished(rec, Err("BodyEncodingFailed", ""),
                          send_outcomes(rec.context, Internal, "send"))]
       \/ /\ rec.upstream = "handed"
          /\ r \in {"ScheduleFailed", "StoreFailed"} => config.processing
          /\ r \in {"UpstreamRequestFailed", "UpstreamRequestFailedReceived"}
                => ~config.processing
          /\ handles' = [handles EXCEPT ![h] =
                 IF r = "Ok" THEN Finished(rec, Err("Accepted", ""), <<>>)
                 ELSE IF r = "UpstreamRequestFailedReceived"
                 THEN Finished(rec, Err("UpstreamRequestFailed", "received"), <<>>)
                 ELSE Finished(rec, Err(r, ""),
                               send_outcomes(rec.context, Internal, "send"))]
    /\ active_envelopes' = active_envelopes - 1
    /\ UNCHANGED <<project, config, metric_msgs, budget, adversity, last_reply, mailbox, worker>>

\* envelope_buffer_expiry passes before the future has completed.
Timeout(h) ==
    LET rec == handles[h] IN
    /\ rec.phase \in {"check", "sample_trace", "get_state", "processing", "sending"}
    /\ adversity
    /\ handles' = [handles EXCEPT ![h] =
           [Finished(rec, Err("Timeout", ""),
                     send_outcomes(rec.context, to_outcome(Err("Timeout", "")), "timeout"))
            EXCEPT !.timeout_phase = rec.phase]]
    /\ active_envelopes' = active_envelopes - 1
    /\ UNCHANGED <<project, config, metric_msgs, budget, adversity, last_reply, mailbox, worker>>

---------------------------------------------------------------------------
\* The system.

\* A run either queues one envelope while collaborators may fail, limit,
\* drop or stall, under any configuration, or queues up to MaxCalls
\* envelopes on a processing relay whose collaborators all answer.
Init ==
    /\ project = NoProject
    /\ active_envelopes = 0
    /\ handles = <<>>
    /\ metric_msgs = <<>>
    /\ \/ budget = 1 /\ adversity = TRUE /\ config \in Configs
       \/ budget = MaxCalls /\ adversity = FALSE /\ config \in Configs /\ config.processing
    /\ last_reply = "none"
    /\ mailbox = <<>>
    /\ worker = Idle

Next ==
    \/ \E env \in Envelopes : QueueEnvelope(env)
    \/ \E h \in 1..Len(handles) : StartHandle(h)
    \/ \E h \in 1..Len(handles) :
          \E r \in {"ProjectFailed", "Rejected", "RateLimited", "Ok"} : CheckResponse(h, r)
    \/ \E h \in 1..Len(handles) : \E r \in {"Keep", "Drop"} : SampleTraceResponse(h, r)
    \/ \E h \in 1..Len(handles) :
          \E r \in {ProjectFailed} \cup ProjectStates : ProjectStateResponse(h, r)
    \/ WorkerStart
    \/ WorkerSkip
    \/ \E o \in Oracles : WorkerProcess(o)
    \/ \E ok \in BOOLEAN : WorkerEncode(ok)
    \/ \E h \in 1..Len(handles) : \E b \in BOOLEAN : ProcessedResponse(h, b)
    \/ \E h \in 1..Len(handles) : \E r \in SendResults : SendResult(h, r)
    \/ \E h \in 1..Len(handles) : Timeout(h)

Spec == Init /\ [][Next]_vars

---------------------------------------------------------------------------
\* The pipeline, stage by stage.

\* Largest number of items of an envelope handed to the processor.
MaxItems == 2

\* Items that require an event: event payloads that state no id, a diverging
\* id, are null or do not parse; the other event sources; a plain attachment
\* and an unreal report.
EventItems ==
    { Item("Event", "None", 1, TRUE),
      [Item("Event", "None", 1, TRUE) EXCEPT !.id = "b"],
      [Item("Event", "None", 1, TRUE) EXCEPT !.null = TRUE],
      Item("Event", "None", 1, FALSE),
      Item("Transaction", "None", 1, TRUE),
      Item("Security", "None", 1, TRUE),
      Item("RawSecurity", "None", 1, TRUE),
      Item("FormData", "None", 1, TRUE),
      Item("Attachment", "EventPayload", 1, TRUE),
      Breadcrumbs(<<Crumb(None, "crumb1")>>),
      Item("Attachment", "Attachment", 1, TRUE),
      Item("UnrealReport", "None", 1, TRUE) }

\* Items that require no event: sessions, session aggregates, and client
\* reports that are fine, do not parse, are too old, or carry an entry that
\* decodes to no outcome.
OtherItems ==
    { Session(received_at, received_at),
      Sessions(<<received_at>>),
      ClientReportItem,
      Item("ClientReport", "None", 1, FALSE),
      [ClientReportItem EXCEPT !.ts = Some(received_at - max_secs_in_past - 1)],
      [ClientReportItem EXCEPT !.entries = <<Entry("Filtered", "adsf", "Error", 1)>>] }

\* The envelopes Handler<QueueEnvelope> can hand on: split_by leaves the
\* items that require an event in one envelope and the rest in another.
PipeEnvelopes ==
    UNION { [1..n -> EventItems] \cup [1..n -> OtherItems] : n \in 1..MaxItems }

\* Forwarding and processing relays with outcome emission and client
\* outcomes enabled or one of them disabled.
PipeConfigs ==
    { [processing |-> p, rate_limiter |-> p, emit_outcomes |-> e[1],
       emit_client_outcomes |-> e[2], http_encoding |-> "identity"] :
         p \in BOOLEAN, e \in {<<TRUE, TRUE>>, <<TRUE, FALSE>>, <<FALSE, TRUE>>} }
    \cup { [processing |-> TRUE, rate_limiter |-> FALSE, emit_outcomes |-> TRUE,
            emit_client_outcomes |-> TRUE, http_encoding |-> "identity"] }

\* What the collaborators answer in these runs: nothing fails, and the quota
\* service limits nothing or the event category.
PipeOracles == {Benign, [Benign EXCEPT !.quota = "event"]}

\* The processor has taken the ProcessEnvelope message of an envelope and
\* prepared the state; pc is the line of process_state it stands before.
PipeInit ==
    /\ project = NoProject
    /\ config \in PipeConfigs
    /\ active_envelopes = 1
    /\ metric_msgs = <<>>
    /\ budget = 0
    /\ adversity = TRUE
    /\ mailbox = <<>>
    /\ \E items \in PipeEnvelopes, ps \in ProjectStates, o \in PipeOracles :
          LET event_id == IF HasItem(items, requires_event) THEN EnvelopeId ELSE "none"
              rec == [NewHandle(items, FALSE, event_id) EXCEPT
                         !.phase = "processing",
                         !.context = EnvelopeSummary(items),
                         !.project_state = ps]
          IN  /\ handles = <<rec>>
              /\ last_reply = OkReply(event_id)
              /\ worker = [busy |-> TRUE, type |-> "ProcessEnvelope", h |-> 1,
                           envelope |-> items, event_id |-> event_id,
                           sent_at |-> None,
                           project_state |-> ps, o |-> o, pc |-> 1,
                           st |-> prepare_state(items, event_id, None, ps)]

\* The next line of process_state; an error returns from process_state.
PipeStep ==
    /\ worker.busy
    /\ worker.pc <= Len(Steps)
    /\ LET after == RunStep(worker.st, Steps[worker.pc], config, worker.o)
       IN  worker' = [worker EXCEPT
               !.st = after,
               !.pc = IF after.err # NoError THEN Len(Steps) + 1 ELSE @ + 1]
    /\ UNCHANGED <<project, config, active_envelopes, handles, metric_msgs, budget, adversity,
                   last_reply, mailbox>>

\* process_state has returned: the handler sends what process sends and
\* returns.
PipeFinish ==
    /\ worker.busy
    /\ worker.pc > Len(Steps)
    /\ WorkerProcess(worker.o)

PipeNext == PipeStep \/ PipeFinish

PipeSpec == PipeInit /\ [][PipeNext]_vars

---------------------------------------------------------------------------
\* The pipeline over envelopes of items that are processed one by one.

\* A client report that parses.
Report(ts, entries) ==
    [Item("ClientReport", "None", 1, TRUE) EXCEPT !.ts = ts, !.entries = entries]

\* Client reports: with and without a timestamp, at and beyond the two
\* bounds; with entries of one key and of several; with reasons of 200 and
\* 201 bytes; with reasons that decode and that do not; without entries;
\* with a payload that does not parse.
ReportItems ==
    { ClientReportItem,
      Report(None, << Entry("ClientDiscard", "queue_full", "Error", 3),
                      Entry("RateLimited", "", "Transaction", 1),
                      Entry("ClientDiscard", "queue_full", "Error", 2) >>),
      Report(Some(received_at - max_secs_in_past - 1),
             << Entry("ClientDiscard", "queue_full", "Error", 2) >>),
      Report(Some(received_at - max_secs_in_past),
             << Entry("RateLimited", "", "Transaction", 1) >>),
      Report(Some(received_at + max_secs_in_future + 1),
             << Entry("ClientDiscard", "queue_full", "Error", 2) >>),
      Report(Some(received_at + max_secs_in_future),
             << Entry("RateLimited", "foo_reason", "Error", 1) >>),
      Report(None, << Entry("ClientDiscard", Reason201, "Error", 1),
                      Entry("ClientDiscard", "queue_full", "Error", 2),
                      Entry("ClientDiscard", Reason200, "Error", 1) >>),
      Report(None, << Entry("FilteredSampling", "Sampled:123", "Transaction", 1),
                      Entry("FilteredSampling", "Sampled:foo", "Transaction", 1),
                      Entry("Filtered", "adsf", "Error", 1),
                      Entry("Filtered", "error-message", "Error", 1) >>),
      Report(None, << Entry("FilteredSampling", "Sampled:", "Transaction", 1),
                      Entry("FilteredSampling", "adsf", "Transaction", 1),
                      Entry("FilteredSampling", "Sampled:18446744073709551616", "Transaction", 1),
                      Entry("FilteredSampling", "Sampled:18446744073709551615", "Transaction", 1) >>),
      Report(None, << Entry("ClientDiscard", "foo_reason", "Error", 1),
                      Entry("ClientDiscard", "", "Error", 1),
                      Entry("FilteredSampling", "Sampled:+5", "Transaction", 1),
                      Entry("FilteredSampling", "Sampled:007", "Transaction", 1) >>),
      Report(Some(received_at - max_secs_in_past - 1), <<>>),
      Item("ClientReport", "None", 1, FALSE) }

\* Sessions: at the receive time; with the sequence number u64::MAX; with
\* a release that does not validate; with a timestamp before started and too
\* old; started too long ago; at the bounds; in the future; with the metrics
\* extracted by a prior relay; with a payload that does not parse. Session
\* aggregates: at the receive time; one of two too old; the only one too
\* old; with the metrics extracted by a prior relay.
SessionItems ==
    { Session(received_at, received_at),
      [Session(received_at, received_at) EXCEPT !.seq_max = TRUE],
      [Session(received_at, received_at) EXCEPT !.release_ok = FALSE],
      Session(received_at, received_at - max_session_secs_in_past - 1),
      Session(received_at - max_session_secs_in_past - 1, received_at),
      Session(received_at - max_session_secs_in_past, received_at + max_secs_in_future),
      Session(received_at + max_secs_in_future + 1, received_at + max_secs_in_future + 1),
      [Session(received_at, received_at) EXCEPT !.mx = TRUE],
      Item("Session", "None", 1, FALSE),
      Sessions(<<received_at - max_session_secs_in_past - 1, received_at>>),
      Sessions(<<received_at - max_session_secs_in_past - 1>>),
      [Sessions(<<received_at>>) EXCEPT !.mx = TRUE] }

\* The envelopes of these runs.
ItemEnvelopes ==
    UNION { [1..n -> ReportItems] : n \in 1..MaxItems }

SessionEnvelopes ==
    UNION { [1..n -> SessionItems] : n \in 1..MaxItems }

\* A profile of a platform.
Profile(platform) ==
    [Item("Profile", "None", 1, TRUE) EXCEPT !.platform = platform]

\* Items that go with an event: a minimal event; user reports that parse,
\* in canonical form or not, and one that does not parse; profiles of a
\* platform with a parser, of one without, one the parser rejects and one
\* that does not parse.
AttachedItems ==
    { Item("Event", "None", 1, TRUE),
      Item("UserReport", "None", 1, TRUE),
      [Item("UserReport", "None", 1, TRUE) EXCEPT !.extra = TRUE],
      Item("UserReport", "None", 1, FALSE),
      Profile("android"),
      Profile("python"),
      [Profile("rust") EXCEPT !.body_ok = FALSE],
      [Profile("cocoa") EXCEPT !.ok = FALSE] }

AttachedEnvelopes ==
    UNION { [1..n -> AttachedItems] : n \in 1..MaxItems }

\* Projects with session metrics disabled or enabled, with and without "drop
\* after extraction".
SessionProjectStates ==
    { [ps EXCEPT !.session_metrics = [enabled |-> e, drop |-> d]] :
        ps \in {p \in ProjectStates : ~p.profiling}, e \in BOOLEAN, d \in BOOLEAN }

\* The sent_at header: absent, or a client clock 56, 55 or 54 minutes off
\* the receive time.
SentAts ==
    { None,
      Some(received_at - 56 * 60),
      Some(received_at - 55 * 60),
      Some(received_at + 54 * 60),
      Some(received_at + 56 * 60) }

\* Forwarding and processing relays that emit outcomes and client outcomes.
\* The two dates of the breadcrumb tests, a day apart.
d1 == received_at - 86400
d2 == received_at

\* Breadcrumbs attachments: empty, without timestamps, with one, with the
\* last timestamp before the end of the list, one that does not parse, and
\* an event payload attachment.
CrumbItems ==
    { Breadcrumbs(<<>>),
      Breadcrumbs(<<Crumb(None, "crumb1")>>),
      Breadcrumbs(<<Crumb(None, "crumb2"), Crumb(None, "crumb3")>>),
      Breadcrumbs(<<Crumb(None, "none"), Crumb(Some(d1), "d1")>>),
      Breadcrumbs(<<Crumb(Some(d2), "d2")>>),
      Breadcrumbs(<<Crumb(Some(d1), "item1")>>),
      Breadcrumbs(<<Crumb(Some(d2), "late"), Crumb(None, "after")>>),
      Breadcrumbs(<<Crumb(Some(d1), "a"), Crumb(Some(d2), "b"), Crumb(Some(d1), "c")>>),
      [Breadcrumbs(<<Crumb(None, "crumb1")>>) EXCEPT !.ok = FALSE],
      Item("Attachment", "EventPayload", 1, TRUE) }

CrumbEnvelopes ==
    UNION { [1..n -> CrumbItems] : n \in 1..MaxItems }

ItemConfigs == {cfg \in PipeConfigs : ~client_outcomes_disabled(cfg)}

\* The runs: client reports go through a forwarding relay, for a project
\* without features; sessions go through a forwarding relay, for the
\* projects above, with sent_at absent or 56 minutes off; events, user
\* reports and profiles go through a forwarding and a processing relay, for
\* a project without and one with the features.
ItemRuns ==
    { [items |-> items, sent_at |-> sent_at, config |-> cfg, project_state |-> ps] :
        items \in ItemEnvelopes, sent_at \in SentAts,
        cfg \in {c \in ItemConfigs : ~c.processing},
        ps \in {p \in ProjectStates : ~p.profiling} }
    \cup
    { [items |-> items, sent_at |-> sent_at, config |-> cfg, project_state |-> ps] :
        items \in SessionEnvelopes,
        sent_at \in {t \in SentAts : t = None \/ Abs(received_at - t[1]) = 56 * 60},
        cfg \in {c \in ItemConfigs : ~c.processing},
        ps \in SessionProjectStates }
    \cup
    { [items |-> items, sent_at |-> None, config |-> cfg, project_state |-> ps] :
        items \in AttachedEnvelopes, cfg \in ItemConfigs, ps \in ProjectStates }
    \cup
    { [items |-> items, sent_at |-> None, config |-> cfg, project_state |-> ps] :
        items \in CrumbEnvelopes,
        cfg \in {c \in ItemConfigs : c.emit_outcomes /\ c.emit_client_outcomes},
        ps \in {p \in ProjectStates : ~p.profiling} }

\* The processor has taken the ProcessEnvelope message of an envelope and
\* prepared the state.
ItemInit ==
    /\ project = NoProject
    /\ active_envelopes = 1
    /\ metric_msgs = <<>>
    /\ budget = 0
    /\ adversity = FALSE
    /\ mailbox = <<>>
    /\ \E run \in ItemRuns :
          LET items == run.items
              sent_at == run.sent_at
              ps == run.project_state
              event_id == IF HasItem(items, requires_event) THEN EnvelopeId ELSE "none"
              rec == [NewHandle(items, FALSE, event_id) EXCEPT
                         !.sent_at = sent_at,
                         !.phase = "processing",
                         !.context = EnvelopeSummary(items),
                         !.project_state = ps]
          IN  /\ config = run.config
              /\ handles = <<rec>>
              /\ last_reply = OkReply(event_id)
              /\ worker = [busy |-> TRUE, type |-> "ProcessEnvelope", h |-> 1,
                           envelope |-> items, event_id |-> event_id,
                           sent_at |-> sent_at,
                           project_state |-> ps, o |-> Benign, pc |-> 1,
                           st |-> prepare_state(items, event_id, sent_at, ps)]

ItemSpec == ItemInit /\ [][PipeNext]_vars

---------------------------------------------------------------------------
\* Transaction metrics (metrics_extraction/transactions.rs).

METRIC_NAMESPACE == "transactions"

\* A BTreeMap<String, String> of tags is a function from its keys.
NoTags == [k \in {} |-> ""]

\* utils::with_tag: a copy of the tags with the key set to the value.
with_tag(tags, key, value) ==
    [k \in DOMAIN tags \cup {key} |-> IF k = key THEN value ELSE tags[k]]

\* MetricValue::Distribution and MetricValue::Set.
Distribution(num) == [kind |-> "d", num |-> num, str |-> ""]
SetFromStr(str) == [kind |-> "s", num |-> 0, str |-> str]

\* Metric::new_mri: the name is <type>:<namespace>/<name>@<unit>.
new_mri(namespace, name, unit, value, timestamp, tags) ==
    [name |-> value.kind \o ":" \o namespace \o "/" \o name \o "@" \o unit,
     unit |-> unit, value |-> value, timestamp |-> timestamp, tags |-> tags]

\* UserSatisfaction::from_value with FRUSTRATION_FACTOR 4.
from_value(value, threshold) ==
    IF value <= threshold THEN "satisfied"
    ELSE IF value <= 4 * threshold THEN "tolerated"
    ELSE "frustrated"

\* get_duration_millis: end.saturating_sub(start) on i64 milliseconds; the
\* difference of two timestamps of the model is far from the ends of i64.
get_duration_millis(start, end) == end - start

\* relay_general::store::get_measurement: the value of the measurement of
\* the name, if the event has one.
get_measurement(event, name) ==
    LET found == SelectSeq(event.measurements,
                           LAMBDA m : m.name = name /\ m.value # None)
    IN  IF found = <<>> THEN None ELSE found[1].value

\* A SatisfactionThreshold and a SatisfactionConfig.
Threshold(metric, threshold) == [metric |-> metric, threshold |-> threshold]
SatisfactionConfig(project_threshold, transaction_thresholds) ==
    [project_threshold |-> project_threshold,
     transaction_thresholds |-> transaction_thresholds]

\* The threshold extract_user_satisfaction selects: the one of the
\* transaction name if there is one, else the one of the project.
selected_threshold(cfg, event) ==
    IF /\ event.transaction # None
       /\ event.transaction[1] \in DOMAIN cfg.transaction_thresholds
    THEN cfg.transaction_thresholds[event.transaction[1]]
    ELSE cfg.project_threshold

\* extract_user_satisfaction.
extract_user_satisfaction(cfg, event, start_timestamp, end_timestamp) ==
    IF cfg = None THEN None
    ELSE LET threshold == selected_threshold(cfg[1], event)
             value == CASE threshold.metric = "duration" ->
                             Some(get_duration_millis(start_timestamp, end_timestamp))
                        [] threshold.metric = "lcp" -> get_measurement(event, "lcp")
                        [] OTHER -> None
         IN  IF value = None THEN None
             ELSE Some(from_value(value[1], threshold.threshold))

\* extract_transaction_status: the status of the trace context.
extract_transaction_status(event) == event.status

\* get_measurement_rating; the ceilings of cls are 0.1 and 0.25.
get_measurement_rating(name, value) ==
    LET rate_range(below_meh, below_poor) ==
            IF below_meh THEN Some("good")
            ELSE IF below_poor THEN Some("meh")
            ELSE Some("poor")
    IN  CASE name = "lcp" -> rate_range(value < 2500, value < 4000)
          [] name = "fcp" -> rate_range(value < 1000, value < 3000)
          [] name = "fid" -> rate_range(value < 100, value < 300)
          [] name = "cls" -> rate_range(10 * value < 1, 4 * value < 1)
          [] OTHER -> None

\* The tags every metric of the event gets: release, dist, environment and
\* transaction where the event has them, and the custom tags asked for.
common_tags(cfg, event) ==
    LET named == {k \in {"release", "dist", "environment", "transaction"} :
                     event[k] # None}
        custom == IF cfg.extract_custom_tags = {} THEN {}
                  ELSE DOMAIN event.tags \cap cfg.extract_custom_tags
    IN  [k \in named \cup custom |-> IF k \in custom THEN event.tags[k] ELSE event[k][1]]

\* The metrics of the measurements that have a value, in the order of the
\* names.
measurement_metrics(event, unix_timestamp, tags) ==
    LET valued == SelectSeq(event.measurements, LAMBDA m : m.value # None)
    IN  [k \in 1..Len(valued) |->
            LET rating == get_measurement_rating(valued[k].name, valued[k].value[1])
            IN  new_mri(METRIC_NAMESPACE, "measurements." \o valued[k].name, "none",
                        Distribution(valued[k].value[1]), unix_timestamp,
                        IF rating = None THEN tags
                        ELSE with_tag(tags, "measurement_rating", rating[1]))]

\* The metrics of the breakdown measurements that have a value.
breakdown_metrics(event, breakdowns_config, unix_timestamp, tags) ==
    LET valued == IF breakdowns_config
                  THEN SelectSeq(event.breakdowns, LAMBDA m : m.value # None)
                  ELSE <<>>
    IN  [k \in 1..Len(valued) |->
            new_mri(METRIC_NAMESPACE,
                    "breakdowns." \o valued[k].breakdown \o "." \o valued[k].name,
                    "none", Distribution(valued[k].value[1]), unix_timestamp, tags)]

\* Variant: the duration metric keeps the satisfaction tag next to the
\* transaction status.
duration_tags_with_both(event, tags, tags_with_satisfaction) ==
    IF extract_transaction_status(event) # None
    THEN with_tag(tags_with_satisfaction, "transaction.status",
                  extract_transaction_status(event)[1])
    ELSE tags_with_satisfaction

\* The tags of the duration metric: the match on extract_transaction_status.
duration_tags(event, tags, tags_with_satisfaction) ==
    IF extract_transaction_status(event) # None
    THEN with_tag(tags, "transaction.status", extract_transaction_status(event)[1])
    ELSE tags_with_satisfaction

\* extract_transaction_metrics_inner: the metrics handed to push_metric, in
\* the order of the calls.
extract_transaction_metrics_inner(cfg, breakdowns_config, event) ==
    IF event.ty # "Transaction" THEN <<>>
    ELSE IF ~event.timestamps_ok THEN <<>>
    ELSE IF event.timestamp < 0 THEN <<>>
    ELSE LET unix_timestamp == event.timestamp \div 1000
             tags == common_tags(cfg, event)
             user_satisfaction ==
                 extract_user_satisfaction(cfg.satisfaction_thresholds, event,
                                           event.start_timestamp, event.timestamp)
             tags_with_satisfaction ==
                 IF user_satisfaction = None THEN tags
                 ELSE with_tag(tags, "satisfaction", user_satisfaction[1])
             duration_millis == get_duration_millis(event.start_timestamp, event.timestamp)
         IN  measurement_metrics(event, unix_timestamp, tags)
             \o breakdown_metrics(event, breakdowns_config, unix_timestamp, tags)
             \o <<new_mri(METRIC_NAMESPACE, "duration", "millisecond",
                          Distribution(duration_millis), unix_timestamp,
                          duration_tags(event, tags, tags_with_satisfaction))>>
             \o (IF event.user_id # None
                 THEN <<new_mri(METRIC_NAMESPACE, "user", "none",
                                SetFromStr(event.user_id[1]), unix_timestamp,
                                tags_with_satisfaction)>>
                 ELSE <<>>)

\* A TaggingRule; matches stands for the condition being supported and
\* matching the event.
TaggingRule(matches, target_metrics, target_tag, tag_value) ==
    [matches |-> matches, target_metrics |-> target_metrics,
     target_tag |-> target_tag, tag_value |-> tag_value]

RECURSIVE tag_metric(_, _)
\* One metric under the rules in their order: a rule that matches and
\* names the metric sets its tag unless the metric has the tag already.
tag_metric(metric, rules) ==
    IF rules = <<>> THEN metric
    ELSE LET rule == Head(rules)
             applies == /\ rule.matches
                        /\ metric.name \in rule.target_metrics
                        /\ rule.target_tag \notin DOMAIN metric.tags
         IN  tag_metric(IF applies
                        THEN [metric EXCEPT
                                 !.tags = with_tag(@, rule.target_tag, rule.tag_value)]
                        ELSE metric,
                        Tail(rules))

\* run_conditional_tagging on a slice of metrics.
run_conditional_tagging(rules, metrics) ==
    [k \in 1..Len(metrics) |-> tag_metric(metrics[k], rules)]

\* Variant: push_metric takes every metric.
push_metrics_all(cfg, metrics) == metrics

\* The push_metric closure over the metrics handed to it: the ones on the
\* allow-list reach the target.
push_metrics(cfg, metrics) ==
    SelectSeq(metrics, LAMBDA m : m.name \in cfg.extract_metrics)

\* Variant: the whole target is tagged, not only the slice added.
tagged_target_whole(target, added, rules) ==
    run_conditional_tagging(rules, target \o added)

\* The target after the call: what was there, then the slice added, tagged.
tagged_target(target, added, rules) ==
    target \o run_conditional_tagging(rules, added)

\* extract_transaction_metrics: the target afterwards and the value
\* returned.
extract_transaction_metrics_fn(cfg, breakdowns_config, tagging_config, event, target) ==
    IF cfg.extract_metrics = {}
    THEN [target |-> target, returned |-> FALSE]
    ELSE LET added == push_metrics(cfg,
                          extract_transaction_metrics_inner(cfg, breakdowns_config, event))
         IN  [target |-> tagged_target(target, added, tagging_config),
              returned |-> added # <<>>]

\* The names of the metrics of the tests.
DurationName == "d:transactions/duration@millisecond"
UserName == "s:transactions/user@none"
LcpName == "d:transactions/measurements.lcp@none"
BreakdownName == "d:transactions/breakdowns.span_ops.ops.react.mount@none"

Measurement(name, value) == [name |-> name, value |-> value]
Breakdown(breakdown, name, value) ==
    [breakdown |-> breakdown, name |-> name, value |-> value]

\* Transactions of one release that started a minute after the epoch (in
\* milliseconds) and took 300, 301, 1200 or 1201 ms, with
\* and without name, user, trace status and lcp measurement.
TransactionEvents ==
    { [ty |-> "Transaction", timestamps_ok |-> TRUE,
       start_timestamp |-> 60000,
       timestamp |-> 60000 + millis,
       release |-> Some("1.2.3"), dist |-> None, environment |-> None,
       transaction |-> transaction, tags |-> [k \in {"fOO", "bogus"} |-> "bar"],
       measurements |-> measurements,
       breakdowns |-> <<Breakdown("span_ops", "ops.react.mount", Some(9))>>,
       user_id |-> user_id, status |-> status] :
         millis \in {300, 301, 1200, 1201},
         transaction \in {None, Some("foo")},
         measurements \in { <<>>,
                            <<Measurement("lcp", Some(41))>>,
                            <<Measurement("lcp", Some(43))>>,
                            <<Measurement("foo", Some(420)), Measurement("lcp", Some(169))>>,
                            <<Measurement("lcp", None)>> },
         user_id \in {None, Some("user123")},
         status \in {None, Some("ok")} }

\* The events of the calls: the transactions, one of them with timestamps
\* that do not validate, and an error event.
MetricEvents ==
    LET transaction == CHOOSE e \in TransactionEvents :
                          /\ e.user_id # None
                          /\ e.measurements = <<Measurement("lcp", Some(41))>>
    IN  TransactionEvents
        \cup {[transaction EXCEPT !.timestamps_ok = FALSE],
              [transaction EXCEPT !.ty = "Default"]}

SatisfactionConfigs ==
    { None,
      Some(SatisfactionConfig(Threshold("duration", 300), NoTags)),
      Some(SatisfactionConfig(Threshold("lcp", 42), NoTags)),
      Some(SatisfactionConfig(Threshold("unknown", 300), NoTags)),
      Some(SatisfactionConfig(Threshold("duration", 300),
                              [k \in {"foo"} |-> Threshold("lcp", 42)])) }

\* TransactionMetricsConfig: allow-list, custom tags, thresholds.
MetricsConfigs ==
    { [extract_metrics |-> names, extract_custom_tags |-> {"fOO"},
       satisfaction_thresholds |-> thresholds] :
         names \in { {}, {DurationName}, {DurationName, UserName},
                     {DurationName, UserName, LcpName, BreakdownName} },
         thresholds \in SatisfactionConfigs }

\* Conditional tagging: no rule, or a rule that does not match followed by
\* one that tags the duration metric.
TaggingConfigs ==
    { <<>>,
      <<TaggingRule(FALSE, {DurationName}, "rule", "first"),
        TaggingRule(TRUE, {DurationName}, "rule", "second")>> }

\* What the target holds before the call: nothing, or a duration metric of
\* an earlier extraction.
Targets ==
    { <<>>,
      <<new_mri(METRIC_NAMESPACE, "duration", "millisecond", Distribution(7),
                received_at, NoTags)>> }

\* The calls of extract_transaction_metrics.
MetricsCalls ==
    { [config |-> c, breakdowns_config |-> b, conditional_tagging_config |-> r,
       event |-> e, target |-> t] :
         c \in MetricsConfigs, b \in BOOLEAN, r \in TaggingConfigs,
         e \in MetricEvents, t \in Targets }

\* The processor is about to call extract_transaction_metrics.
MetricsInit ==
    /\ project = NoProject
    /\ config \in {c \in PipeConfigs : c.processing /\ c.rate_limiter /\ c.emit_outcomes
                                       /\ c.emit_client_outcomes}
    /\ active_envelopes = 1
    /\ handles = <<>>
    /\ metric_msgs = <<>>
    /\ budget = 0
    /\ adversity = FALSE
    /\ last_reply = "none"
    /\ mailbox = <<>>
    /\ \E call \in MetricsCalls :
          worker = [busy |-> TRUE, type |-> "extract_transaction_metrics",
                    call |-> call, target |-> call.target, returned |-> None]

\* The call of extract_transaction_metrics and its return.
ExtractTransactionMetrics ==
    /\ worker.type = "extract_transaction_metrics"
    /\ worker.returned = None
    /\ LET call == worker.call
           result == extract_transaction_metrics_fn(
                         call.config, call.breakdowns_config,
                         call.conditional_tagging_config, call.event, worker.target)
       IN  worker' = [worker EXCEPT !.target = result.target,
                                    !.returned = Some(result.returned)]
    /\ UNCHANGED <<project, config, active_envelopes, handles, metric_msgs, budget, adversity,
                   last_reply, mailbox>>

MetricsNext == ExtractTransactionMetrics

MetricsSpec == MetricsInit /\ [][MetricsNext]_vars

---------------------------------------------------------------------------
\* Project cache (actors/project.rs). Time is counted in seconds.

\* Config::project_cache_expiry, Config::cache_miss_expiry and
\* Config::project_grace_period of the relay, in seconds.
project_cache_expiry == 2
cache_miss_expiry == 1
project_grace_period == 1

\* How long the clock runs and how many get_or_fetch_state calls are made.
MaxTime == 3
MaxGets == 2

\* A ProjectState as far as expiry and the disabled check read it.
ProjectState(project_id, disabled, invalid, last_fetch) ==
    [project_id |-> project_id, disabled |-> disabled, invalid |-> invalid,
     last_fetch |-> last_fetch]

\* ProjectState::missing, ProjectState::err and a state of a project that
\* is there, enabled or disabled, all fetched at the given time.
missing(now) == ProjectState(None, TRUE, FALSE, now)
err(now) == [missing(now) EXCEPT !.invalid = TRUE]
enabled(now) == ProjectState(Some(42), FALSE, FALSE, now)
disabled(now) == ProjectState(Some(42), TRUE, FALSE, now)

\* Variant: a state is expired as soon as it is stale.
check_expiry_without_grace(state, now) ==
    LET expiry == IF state.project_id = None THEN cache_miss_expiry
                  ELSE project_cache_expiry
        elapsed == now - state.last_fetch
    IN  IF elapsed >= expiry THEN "Expired" ELSE "Updated"

\* ProjectState::check_expiry.
check_expiry(state, now) ==
    LET expiry == IF state.project_id = None THEN cache_miss_expiry
                  ELSE project_cache_expiry
        elapsed == now - state.last_fetch
    IN  IF elapsed >= expiry + project_grace_period THEN "Expired"
        ELSE IF elapsed >= expiry THEN "Stale"
        ELSE "Updated"

\* Variant: the disabled flag is looked at before the invalid flag.
check_disabled_first(state, now) ==
    IF check_expiry(state, now) = "Expired" THEN "Ok"
    ELSE IF state.disabled THEN "Err(ProjectId)"
    ELSE IF state.invalid THEN "Err(ProjectState)"
    ELSE "Ok"

\* ProjectState::check_disabled.
check_disabled(state, now) ==
    IF check_expiry(state, now) = "Expired" THEN "Ok"
    ELSE IF state.invalid THEN "Err(ProjectState)"
    ELSE IF state.disabled THEN "Err(ProjectId)"
    ELSE "Ok"

\* StateChannel::new with no_cache set afterwards.
StateChannel(no_cache) == [no_cache |-> no_cache]

\* What a caller of get_or_fetch_state holds: a state, or a future that is
\* pending, has the state or has failed.
Pending == [status |-> "pending", state |-> None]
Resolved(state) == [status |-> "ok", state |-> Some(state)]

\* Variant: a dropped channel leaves its receivers pending.
FetchFailed_never == [status |-> "pending", state |-> None]

\* The future of a receiver whose channel was dropped.
FetchFailed == [status |-> "FetchFailed", state |-> None]

\* Project::new at time 0, with nothing asked of it yet. gets counts the
\* get_or_fetch_state calls, fetches lists the UpdateProjectState messages
\* sent (with the number of update_state calls accepted before), waiters
\* the futures handed out, updates the update_state calls accepted.
NewProject ==
    [key |-> "a", now |-> 0, state |-> None, state_channel |-> None,
     last_no_cache |-> 0, metrics_allowed |-> TRUE,
     gets |-> 0, fetches |-> <<>>, waiters |-> <<>>, updates |-> 0,
     reply |-> [kind |-> "none", state |-> None, waiter |-> 0, no_cache |-> FALSE],
     checked |-> "none"]

\* The no_cache the call goes on with: at most one no_cache request per
\* second, the others are treated as cached requests.
effective_no_cache(p, no_cache) == no_cache /\ p.now - p.last_no_cache >= 1

\* Variant: every call that gets that far starts a request.
must_fetch_always(p, no_cache) == TRUE

\* Whether get_or_fetch_state starts a request: there is no channel, or the
\* call is no_cache and the channel is not.
must_fetch(p, no_cache) ==
    \/ p.state_channel = None
    \/ ~p.state_channel[1].no_cache /\ no_cache

\* Variant: the cached state is used whether or not no_cache is set.
cached_state_with_no_cache(p, no_cache) ==
    LET expiry == IF p.state = None THEN "Expired" ELSE check_expiry(p.state[1], p.now)
    IN  IF p.state = None \/ expiry = "Expired" THEN [early |-> FALSE, state |-> None]
        ELSE IF expiry = "Stale" THEN [early |-> FALSE, state |-> p.state]
        ELSE [early |-> TRUE, state |-> p.state]

\* The cached state get_or_fetch_state answers with, if any, and whether
\* it returns early with it.
cached_state(p, no_cache) ==
    LET expiry == IF p.state = None THEN "Expired" ELSE check_expiry(p.state[1], p.now)
    IN  IF no_cache THEN [early |-> FALSE, state |-> None]
        ELSE IF p.state = None \/ expiry = "Expired" THEN [early |-> FALSE, state |-> None]
        ELSE IF expiry = "Stale" THEN [early |-> FALSE, state |-> p.state]
        ELSE [early |-> TRUE, state |-> p.state]

\* Project::get_or_fetch_state.
get_or_fetch_state(p, no_cache_arg) ==
    LET no_cache == effective_no_cache(p, no_cache_arg)
        limited == [p EXCEPT !.last_no_cache = IF no_cache THEN p.now ELSE @,
                             !.gets = @ + 1]
        cached == cached_state(p, no_cache)
        requested == IF must_fetch(p, no_cache)
                     THEN [limited EXCEPT
                              !.state_channel = Some(StateChannel(no_cache)),
                              !.fetches = Append(@, [no_cache |-> no_cache,
                                                     answered |-> FALSE,
                                                     after |-> p.updates])]
                     ELSE limited
    IN  IF cached.early
        THEN [limited EXCEPT !.reply = [kind |-> "ok", state |-> cached.state, waiter |-> 0,
                                        no_cache |-> no_cache]]
        ELSE IF cached.state # None
        THEN [requested EXCEPT !.reply = [kind |-> "ok", state |-> cached.state,
                                          waiter |-> 0, no_cache |-> no_cache]]
        ELSE [requested EXCEPT !.waiters = Append(@, Pending),
                               !.reply = [kind |-> "future", state |-> None,
                                          waiter |-> Len(p.waiters) + 1,
                                          no_cache |-> no_cache]]

\* Variant: a response is taken whatever request it answers.
superseded_never(p, no_cache) == FALSE

\* The response answers a request that a no_cache request has superseded.
superseded(p, no_cache) == p.state_channel[1].no_cache /\ ~no_cache

\* Project::update_state: state_result is the state of the response, if
\* it has one. Dropping the channel fails the futures of its receivers.
update_state(p, state_result, no_cache) ==
    IF p.state_channel = None THEN p
    ELSE IF superseded(p, no_cache) THEN p
    ELSE [p EXCEPT !.state_channel = None,
                   !.state = state_result,
                   !.metrics_allowed = IF state_result = None THEN @
                                       ELSE check_disabled(state_result[1], p.now) = "Ok",
                   !.updates = @ + 1,
                   !.waiters = [k \in 1..Len(@) |->
                                   IF @[k].status # "pending" THEN @[k]
                                   ELSE IF state_result = None THEN FetchFailed
                                   ELSE Resolved(state_result[1])]]

\* The responses of the upstream: none, or a state fetched just now.
StateResults(now) ==
    {None, Some(enabled(now)), Some(disabled(now)), Some(err(now)), Some(missing(now))}

\* The same at any time of the run.
AllStateResults == UNION {StateResults(now) : now \in 0..MaxTime}

\* A caller asks for the project state.
GetOrFetchState(no_cache) ==
    /\ project.key # "none"
    /\ project.gets < MaxGets
    /\ project' = get_or_fetch_state(project, no_cache)
    /\ UNCHANGED <<config, active_envelopes, handles, metric_msgs, budget, adversity,
                   last_reply, mailbox, worker>>

\* The project cache answers the k-th UpdateProjectState message with
\* update_state.
UpdateState(k, state_result) ==
    /\ project.key # "none"
    /\ k \in 1..Len(project.fetches)
    /\ ~project.fetches[k].answered
    /\ state_result \in StateResults(project.now)
    /\ project' = [update_state(project, state_result, project.fetches[k].no_cache)
                      EXCEPT !.fetches[k].answered = TRUE]
    /\ UNCHANGED <<config, active_envelopes, handles, metric_msgs, budget, adversity,
                   last_reply, mailbox, worker>>

\* A request is checked against the cached state.
CheckDisabled ==
    /\ project.key # "none"
    /\ project.state # None
    /\ project' = [project EXCEPT !.checked = check_disabled(project.state[1], project.now)]
    /\ project'.checked # project.checked
    /\ UNCHANGED <<config, active_envelopes, handles, metric_msgs, budget, adversity,
                   last_reply, mailbox, worker>>

\* A second passes.
Tick ==
    /\ project.key # "none"
    /\ project.now < MaxTime
    /\ project' = [project EXCEPT !.now = @ + 1, !.checked = "none"]
    /\ UNCHANGED <<config, active_envelopes, handles, metric_msgs, budget, adversity,
                   last_reply, mailbox, worker>>

ProjectInit ==
    /\ project = NewProject
    /\ config \in {c \in PipeConfigs : c.processing /\ c.rate_limiter /\ c.emit_outcomes
                                       /\ c.emit_client_outcomes}
    /\ active_envelopes = 0
    /\ handles = <<>>
    /\ metric_msgs = <<>>
    /\ budget = 0
    /\ adversity = FALSE
    /\ last_reply = "none"
    /\ mailbox = <<>>
    /\ worker = Idle

ProjectNext ==
    \/ \E no_cache \in BOOLEAN : GetOrFetchState(no_cache)
    \/ \E k \in 1..MaxGets, state_result \in AllStateResults :
          UpdateState(k, state_result)
    \/ CheckDisabled
    \/ Tick

ProjectSpec == ProjectInit /\ [][ProjectNext]_vars

\* Every UpdateProjectState message is answered in the end.
ProjectFairSpec ==
    /\ ProjectSpec
    /\ \A k \in 1..MaxGets :
          WF_vars(\E state_result \in AllStateResults : UpdateState(k, state_result))

---------------------------------------------------------------------------
\* Properties.

RECURSIVE SumTracks(_, _)
\* The quantity a sequence of TrackOutcome messages reports in a category.
SumTracks(tracks, c) ==
    IF tracks = <<>> THEN 0
    ELSE (IF Head(tracks).category = c THEN Head(tracks).quantity ELSE 0)
         + SumTracks(Tail(tracks), c)

\* The outcomes emitted for the envelope itself. Outcomes relayed from a
\* client report speak about events the client discarded, not about this
\* envelope.
EnvelopeOutcomes(rec) == SelectSeq(rec.outs, LAMBDA t : t.src # "client_report")

\* The outcomes one code place emitted for the envelope.
OutcomesFrom(rec, src) == SelectSeq(rec.outs, LAMBDA t : t.src = src)

\* The processor still has a message of the envelope to handle.
WorkerHolds(h) ==
    \/ worker.busy /\ worker.h = h
    \/ \E k \in 1..Len(mailbox) : mailbox[k].h = h

\* The stages EnvelopeProcessor::process_state has run for the envelope.
StagesRun(rec) == {rec.processed.state.trace[k] :
                      k \in 1..Len(rec.processed.state.trace)}

\* The pipeline has run for the envelope (prepare_state succeeded).
PipelineRan(rec) ==
    /\ rec.processed.kind # "none"
    /\ rec.processed.state.trace # <<>>

\* C1: a QueueEnvelope that arrives while active_envelopes >=
\* envelope_buffer_size is answered with TooManyEnvelopes, and it queues no
\* HandleEnvelope, sends no ProcessMetrics and ProcessEnvelope message and
\* leaves active_envelopes as it was.
C1_RejectedWhenFull ==
    [][(budget' # budget /\ active_envelopes >= envelope_buffer_size)
          => /\ last_reply' = "TooManyEnvelopes"
             /\ handles' = handles
             /\ metric_msgs' = metric_msgs
             /\ mailbox' = mailbox
             /\ active_envelopes' = active_envelopes]_vars

\* A QueueEnvelope has been rejected.
C1_Witness == last_reply = "TooManyEnvelopes"

\* C2: active_envelopes never exceeds envelope_buffer_size.
C2_QueueCapped == active_envelopes <= envelope_buffer_size

\* C3: for every envelope and every data category, at every moment of every
\* interleaving of manager and processor, the outcomes emitted for the
\* envelope sum to at most the quantity the queued envelope had in the
\* category.
C3_NoDoubleCount ==
    \A h \in 1..Len(handles) : \A c \in Categories :
        SumTracks(EnvelopeOutcomes(handles[h]), c)
            <= SummaryQuantity(handles[h].original, c)

\* C4: once the handling of an envelope has ended without the envelope
\* having been passed on (and the processor is done with it), the outcomes
\* emitted for it sum, in every data category, to the quantity the queued
\* envelope had in the category.
C4_OutcomesComplete ==
    \A h \in 1..Len(handles) :
        LET rec == handles[h] IN
        (/\ rec.phase = "done"
         /\ rec.result.kind # "Accepted"
         /\ rec.result # Err("UpstreamRequestFailed", "received")
         /\ ~WorkerHolds(h))
        => \A c \in Categories :
              SumTracks(EnvelopeOutcomes(rec), c) = SummaryQuantity(rec.original, c)

\* C5: for an envelope whose handling ended with Timeout, the outcomes
\* Invalid(Internal) emitted for it are exactly one per category of its
\* context, with the quantity of the context, and from then on the envelope
\* is not handed to the upstream or the store.
C5_TimeoutAbandons ==
    /\ [](\A h \in 1..Len(handles) :
            LET rec == handles[h]
                internal == SelectSeq(rec.outs, LAMBDA t : t.outcome = Internal)
            IN  rec.result.kind = "Timeout"
                => /\ Len(internal) = Len(send_outcomes(rec.context, Internal, "timeout"))
                   /\ \A c \in Categories :
                         SumTracks(internal, c) = SummaryQuantity(rec.context, c))
    /\ [][\A h \in 1..Len(handles) :
            handles[h].result.kind = "Timeout"
                => handles'[h].upstream = handles[h].upstream]_vars

\* C6: for an envelope whose handling ended with Timeout, no InsertMetrics
\* message with metrics extracted from it has been sent to the project cache.
C6_MetricsDiscarded ==
    \A h \in 1..Len(handles) :
        handles[h].result.kind = "Timeout" => handles[h].inserted = <<>>

\* The stages of the driver in their fixed order.
StageOrder ==
    <<"process_sessions", "process_client_reports", "process_user_reports",
      "process_profiles", "process_replay_recordings",
      "expand_unreal", "extract_event", "process_unreal", "create_placeholders",
      "finalize_event", "extract_transaction_metrics", "sample_event",
      "store_process_event", "filter_event",
      "enforce_quotas", "scrub_event", "serialize_event", "scrub_attachments">>

StageRank(stage) == CHOOSE k \in 1..Len(StageOrder) : StageOrder[k] = stage

\* The stages of the block guarded by "an item creates an event".
EventBlock ==
    {"expand_unreal", "extract_event", "process_unreal", "create_placeholders",
     "finalize_event", "extract_transaction_metrics", "sample_event",
     "store_process_event", "filter_event"}

\* The stages that run in processing mode only.
ProcessingOnly ==
    {"expand_unreal", "process_unreal", "create_placeholders",
     "extract_transaction_metrics", "store_process_event", "filter_event",
     "enforce_quotas"}

\* C7: the stages the driver has run for an envelope follow the fixed order
\* (each stage at most once, none before a stage that precedes it); the five
\* item processors always run first; the stages of the event block run only
\* if an item of the envelope creates an event; the processing-only stages
\* run only in processing mode; serialize runs only after scrub; and a run
\* that succeeds has run every stage its mode and its envelope call for,
\* scrub and serialize exactly if an event is present.
C7_StageOrder ==
    \A h \in 1..Len(handles) :
        LET rec == handles[h]
            res == rec.processed
        IN  PipelineRan(rec) =>
            LET tr == res.state.trace
                ran == StagesRun(rec)
                creating == HasItem(res.state.input, creates_event_item)
            IN  /\ \A k \in 1..(Len(tr) - 1) : StageRank(tr[k]) < StageRank(tr[k + 1])
                /\ Len(tr) >= 5
                /\ \A k \in 1..5 : tr[k] = StageOrder[k]
                /\ ran \cap EventBlock # {} => creating
                /\ ran \cap ProcessingOnly # {} => config.processing
                /\ "serialize_event" \in ran => "scrub_event" \in ran
                /\ res.kind = "Ok" =>
                      /\ creating =>
                            {"extract_event", "finalize_event", "sample_event"} \subseteq ran
                      /\ (creating /\ config.processing) => EventBlock \subseteq ran
                      /\ config.processing => "enforce_quotas" \in ran
                      /\ ("scrub_event" \in ran) = res.state.event.present
                      /\ ("serialize_event" \in ran) = res.state.event.present
                      /\ "scrub_attachments" \in ran

\* A processing relay has run the whole pipeline for an event.
C7_Witness ==
    \E h \in 1..Len(handles) :
        /\ PipelineRan(handles[h])
        /\ handles[h].processed.kind = "Ok"
        /\ config.processing
        /\ {"filter_event", "enforce_quotas", "serialize_event", "scrub_attachments"}
              \subseteq StagesRun(handles[h])

\* C8: when a stage of the pipeline has failed, the failing stage is the
\* last stage that ran, the driver has emitted the outcome to_outcome gives
\* for the error once per category of the pre-processing summary (nothing if
\* to_outcome gives none), and the response carries that error and no
\* envelope; the handling ends with that error unless it timed out before.
C8_FirstErrorReturns ==
    \A h \in 1..Len(handles) :
        LET rec == handles[h]
            res == rec.processed
        IN  (PipelineRan(rec) /\ res.kind = "Err") =>
            /\ res.err # NoError
            /\ res.err = res.state.err
            /\ res.state.failed_at = Len(res.state.trace)
            /\ res.envelope = <<>>
            /\ OutcomesFrom(rec, "process") =
                  (IF to_outcome(res.err) = NoOutcome THEN <<>>
                   ELSE send_outcomes(EnvelopeSummary(res.state.input),
                                      to_outcome(res.err), "process"))
            /\ (rec.phase = "done" /\ rec.result.kind # "Timeout") => rec.result = res.err

\* The handling of an envelope has ended with the error of a failed stage
\* for which the driver emitted an outcome.
C8_Witness ==
    \E h \in 1..Len(handles) :
        /\ PipelineRan(handles[h])
        /\ handles[h].processed.kind = "Err"
        /\ handles[h].processed.err.kind = "InvalidTransaction"
        /\ handles[h].phase = "done"
        /\ handles[h].result = handles[h].processed.err
        /\ OutcomesFrom(handles[h], "process") # <<>>

\* C9: when the pipeline has failed, the InsertMetrics message carries all
\* metrics extracted so far if the error is EventSampled or TraceSampled,
\* and no metrics are sent for any other error.
C9_MetricsKeptIffSampled ==
    \A h \in 1..Len(handles) :
        LET rec == handles[h]
            res == rec.processed
        IN  (rec.processed.kind = "Err") =>
            rec.inserted = (IF res.err.kind \in {"EventSampled", "TraceSampled"}
                            THEN res.state.extracted_metrics
                            ELSE <<>>)

\* The sampler has dropped an event from which metrics had been extracted,
\* and the metrics were sent.
C9_Witness ==
    \E h \in 1..Len(handles) :
        /\ handles[h].processed.kind = "Err"
        /\ handles[h].processed.err.kind = "EventSampled"
        /\ handles[h].processed.state.extracted_metrics # <<>>
        /\ handles[h].inserted # <<>>

\* The stages that follow the sampler.
AfterSampler ==
    {"store_process_event", "filter_event", "enforce_quotas", "scrub_event",
     "serialize_event"}

\* C10: if the sampler answered Drop(rule), FilteredSampling(rule) has been
\* emitted for the pre-processing summary, the pipeline returned
\* EventSampled(rule) and none of store-normalize, inbound filter, quota
\* enforcement, scrub and serialize has run; if it answered Keep or
\* NoDecision, the sampler returned no error and the next stage has run; in
\* every case the sampler left the items of the envelope as they were.
C10_SamplerDrop ==
    \A h \in 1..Len(handles) :
        LET rec == handles[h]
            res == rec.processed
        IN  (PipelineRan(rec) /\ "sample_event" \in StagesRun(rec)) =>
            /\ res.state.env_after_sample = res.state.env_before_sample
            /\ res.state.sampled = "Drop" =>
                  /\ OutcomesFrom(rec, "sample_event") =
                        send_outcomes(EnvelopeSummary(res.state.input),
                                      Outcome("FilteredSampling", RuleId), "sample_event")
                  /\ res.kind = "Err"
                  /\ res.err = Err("EventSampled", RuleId)
                  /\ StagesRun(rec) \cap AfterSampler = {}
            /\ res.state.sampled \in {"Keep", "NoDecision"} =>
                  /\ res.err.kind # "EventSampled"
                  /\ OutcomesFrom(rec, "sample_event") = <<>>
                  /\ StagesRun(rec) \cap {"store_process_event", "scrub_event"} # {}

\* The sampler has dropped an event and the outcome has been emitted.
C10_Witness ==
    \E h \in 1..Len(handles) :
        /\ PipelineRan(handles[h])
        /\ handles[h].processed.state.sampled = "Drop"
        /\ OutcomesFrom(handles[h], "sample_event") # <<>>

\* The stages that follow the inbound filter.
AfterFilter == {"enforce_quotas", "scrub_event", "serialize_event", "scrub_attachments"}

\* C11: when the inbound filter has blocked the event (the pipeline failed
\* with EventFiltered, or the filter stage emitted an outcome), the relay is
\* in processing mode, the filter stage has emitted Filtered(reason) in one
\* emission (one TrackOutcome per category of the context), the pipeline
\* failed with EventFiltered(reason), the driver emitted no outcome for that
\* error, and no stage after the filter has run.
C11_FilterBlocks ==
    \A h \in 1..Len(handles) :
        LET rec == handles[h]
            res == rec.processed
        IN  (/\ PipelineRan(rec)
             /\ \/ res.err.kind = "EventFiltered"
                \/ OutcomesFrom(rec, "filter_event") # <<>>) =>
            /\ config.processing
            /\ res.kind = "Err"
            /\ res.err = Err("EventFiltered", FilterReason)
            /\ OutcomesFrom(rec, "filter_event") =
                  send_outcomes(EnvelopeSummary(res.state.input),
                                Outcome("Filtered", FilterReason), "filter_event")
            /\ OutcomesFrom(rec, "filter_event") # <<>>
            /\ OutcomesFrom(rec, "process") = <<>>
            /\ StagesRun(rec) \cap AfterFilter = {}

\* The inbound filter has blocked an event that came with an attachment.
C11_Witness ==
    \E h \in 1..Len(handles) :
        /\ PipelineRan(handles[h])
        /\ handles[h].processed.err.kind = "EventFiltered"
        /\ Len(OutcomesFrom(handles[h], "filter_event")) >= 2

\* The code places that emit an outcome through an EnvelopeContext after
\* stages of the pipeline have run: the sampler, the inbound filter and the
\* error path of the driver. Each of them ends the pipeline, so the envelope
\* of the final state is the envelope at the time of the emission.
LateEmitters == {"sample_event", "filter_event", "process"}

\* C12: an outcome that the sampler, the inbound filter or the driver's
\* error path emits for an envelope reports, in the categories Attachment
\* and Profile, the quantity of the items that are still in the envelope at
\* that time: items a stage has dropped before are not counted.
C12_ContextTracksEnvelope ==
    \A h \in 1..Len(handles) :
        LET rec == handles[h]
            res == rec.processed
        IN  PipelineRan(rec) =>
            \A src \in LateEmitters :
                OutcomesFrom(rec, src) # <<>> =>
                \A c \in {"Attachment", "Profile"} :
                    SumTracks(OutcomesFrom(rec, src), c)
                        = SummaryQuantity(EnvelopeSummary(res.state.envelope), c)

\* The state of the pipeline the processor is running, and the final state
\* of every pipeline it has run.
PipeStates ==
    (IF worker.busy THEN {worker.st} ELSE {})
    \cup {handles[h].processed.state :
             h \in {k \in 1..Len(handles) : PipelineRan(handles[k])}}

\* The stages a state has been through.
Stages(st) == {st.trace[k] : k \in 1..Len(st.trace)}

\* The event payload that extract_event reads from the envelope stated an
\* id other than the envelope's.
DivergingId(st) ==
    \E k \in 1..Len(st.input) :
        st.input[k].ty = "Event" /\ st.input[k].id \notin {"none", st.event_id}

\* C13: once finalize_event has run, the event_id of the envelope is the one
\* the envelope had before processing, and an event that is present carries
\* that id, whatever id its payload stated.
C13_EventIdConsistent ==
    \A st \in PipeStates :
        "finalize_event" \in Stages(st) =>
            /\ st.event_id = handles[1].event_id
            /\ st.event.present => st.event.id = st.event_id

\* finalize_event has run for an event whose payload stated a diverging id.
C13_Witness ==
    \E st \in PipeStates :
        /\ "finalize_event" \in Stages(st)
        /\ st.event.present
        /\ DivergingId(st)
        /\ st.event.id = EnvelopeId

\* The processor has just run the stage: the step took the pipeline through
\* a call of it.
JustRan(stage) ==
    /\ worker.busy
    /\ worker'.busy
    /\ Len(worker'.st.trace) = Len(worker.st.trace) + 1
    /\ worker'.st.trace[Len(worker'.st.trace)] = stage

\* C14: a call of finalize_event with no event present leaves every field
\* of the state as it was and returns no error if processing mode is off,
\* and returns NoEventPayload if processing mode is on.
C14_FinalizeWithoutEvent ==
    [][(JustRan("finalize_event") /\ ~worker.st.event.present) =>
          IF config.processing
          THEN worker'.st.err = Err("NoEventPayload", "")
          ELSE worker'.st = [worker.st EXCEPT !.trace = worker'.st.trace]]_vars

\* finalize_event has failed for a missing event on a processing relay.
C14_Witness ==
    /\ worker.busy
    /\ config.processing
    /\ worker.st.trace # <<>>
    /\ worker.st.trace[Len(worker.st.trace)] = "finalize_event"
    /\ ~worker.st.event.present
    /\ worker.st.err = Err("NoEventPayload", "")

\* The types of the items that carry an event payload of their own.
EventLike == {"Event", "Transaction", "Security", "RawSecurity", "FormData"}

IsEventLike(i) == i.ty \in EventLike
IsAttachedSource(i) == IsEventPayload(i) \/ IsBreadcrumbs(i)

\* The source the precedence names for an envelope.
SelectedSource(items) ==
    IF HasItem(items, IsEventItem) THEN "Event"
    ELSE IF HasItem(items, IsSecurityItem) THEN "Security"
    ELSE IF HasItem(items, IsTransactionItem) THEN "Transaction"
    ELSE IF HasItem(items, IsRawSecurityItem) THEN "RawSecurity"
    ELSE IF HasItem(items, IsAttachedSource) THEN "Attachments"
    ELSE IF HasItem(items, IsFormItem) THEN "FormData"
    ELSE "None"

\* The event a source yields when its payload is fine.
EventOfSource(items, source) ==
    LET item == Find(items, LAMBDA i : i.ty = source)
    IN  CASE source \in {"Event", "Security"} ->
                [present |-> ~item.null, ty |-> "Default",
                 id |-> IF item.null THEN "none" ELSE item.id]
          [] source = "Transaction" ->
                [present |-> ~item.null, ty |-> IF item.null THEN "Default" ELSE "Transaction",
                 id |-> IF item.null THEN "none" ELSE item.id]
          [] source = "RawSecurity" -> [present |-> TRUE, ty |-> "Csp", id |-> "none"]
          [] source \in {"Attachments", "FormData"} ->
                [present |-> TRUE, ty |-> "Default", id |-> "none"]
          [] OTHER -> [present |-> FALSE, ty |-> "Default", id |-> "none"]

\* The number of items a call of extract_event takes of a kind of which the
\* envelope holds n and the extractor asks for at most k.
LeftOf(n, k) == IF n > k THEN n - k ELSE 0

\* C15: a call of extract_event takes the candidate items of every source
\* out of the envelope (the first Event, Transaction, Security, RawSecurity
\* and FormData item, the first EventPayload and the first two Breadcrumbs
\* attachments) and leaves all other items in their order; when it
\* succeeds, no item of an event-like type is left, and the event of the
\* state is the one of the first source in the order Event, Security,
\* Transaction, RawSecurity, attachments, form data, and absent without any.
C15_SourcePrecedence ==
    [][JustRan("extract_event") =>
          LET before == worker.st.envelope
              after == worker'.st.envelope
          IN  /\ \A ty \in EventLike :
                    Count(after, LAMBDA i : i.ty = ty)
                        = LeftOf(Count(before, LAMBDA i : i.ty = ty), 1)
              /\ Count(after, IsEventPayload) = LeftOf(Count(before, IsEventPayload), 1)
              /\ Count(after, IsBreadcrumbs) = LeftOf(Count(before, IsBreadcrumbs), 2)
              /\ SelectSeq(after, LAMBDA i : ~IsEventLike(i) /\ ~IsAttachedSource(i))
                    = SelectSeq(before, LAMBDA i : ~IsEventLike(i) /\ ~IsAttachedSource(i))
              /\ worker'.st.err = NoError =>
                    /\ ~HasItem(after, IsEventLike)
                    /\ worker'.st.event = EventOfSource(before, SelectedSource(before))]_vars

\* extract_event has succeeded for an envelope with an Event and a
\* Transaction item: the event is the one of the Event item and both items
\* are gone.
C15_Witness ==
    /\ worker.busy
    /\ worker.st.trace # <<>>
    /\ worker.st.trace[Len(worker.st.trace)] = "extract_event"
    /\ worker.st.err = NoError
    /\ HasItem(worker.st.input, IsEventItem)
    /\ HasItem(worker.st.input, IsTransactionItem)
    /\ worker.st.event.present
    /\ worker.st.event.ty = "Default"
    /\ ~HasItem(worker.st.envelope, IsEventLike)

\* C16: when extract_event has run for an envelope that came with an Event
\* item and a RawSecurity item, both with payloads that parse, it has failed
\* with DuplicateItem, naming the security report.
C16_EventPlusRawSecurity ==
    \A st \in PipeStates :
        (/\ "extract_event" \in Stages(st)
         /\ HasItem(st.input, IsEventItem)
         /\ HasItem(st.input, IsRawSecurityItem)
         /\ \A k \in 1..Len(st.input) : st.input[k].ok) =>
            /\ st.err.kind = "DuplicateItem"
            /\ st.err.arg \in {"Security", "RawSecurity"}

\* extract_event has run and returned without error.
ExtractSucceeded(st) ==
    /\ "extract_event" \in Stages(st)
    /\ ~(st.err # NoError /\ st.trace[Len(st.trace)] = "extract_event")

\* serialize_event has run and returned without error.
SerializeSucceeded(st) ==
    /\ "serialize_event" \in Stages(st)
    /\ ~(st.err # NoError /\ st.trace[Len(st.trace)] = "serialize_event")

\* C17: once extract_event has succeeded, the envelope holds no item of
\* type Event, Transaction, Security, RawSecurity or FormData as long as
\* serialize_event has not added one; when serialize_event has succeeded the
\* envelope holds exactly one such item, so at every later moment, and in
\* the returned envelope, there is at most one.
C17_EventItemRemoved ==
    \A st \in PipeStates :
        ExtractSucceeded(st) =>
            IF SerializeSucceeded(st)
            THEN Count(st.envelope, IsEventLike) = 1
            ELSE Count(st.envelope, IsEventLike) = 0

\* serialize_event has added the event item back for an envelope that came
\* with two items of event-like types.
C17_Witness ==
    \E st \in PipeStates :
        /\ SerializeSucceeded(st)
        /\ Count(st.input, IsEventLike) = 2
        /\ Count(st.envelope, IsEventLike) = 1

\* The envelope came with Session and Sessions items only.
OnlySessions(st) ==
    /\ st.input # <<>>
    /\ \A k \in 1..Len(st.input) : IsSessionItem(st.input[k])

\* C18: while and after the pipeline runs for an envelope that came with
\* Session and Sessions items only, on a forwarding and on a processing
\* relay, the event of the state is absent, serialize_event has not run and
\* the envelope holds no Event and no Transaction item.
C18_SessionsNoEvent ==
    \A st \in PipeStates :
        OnlySessions(st) =>
            /\ ~st.event.present
            /\ "serialize_event" \notin Stages(st)
            /\ ~HasItem(st.envelope, LAMBDA i : i.ty \in {"Event", "Transaction"})

\* The pipeline has run to its end for a Session and a Sessions item.
C18_Witness ==
    \E h \in 1..Len(handles) :
        /\ PipelineRan(handles[h])
        /\ handles[h].processed.kind = "Ok"
        /\ OnlySessions(handles[h].processed.state)
        /\ HasItem(handles[h].processed.state.input, LAMBDA i : i.ty = "Session")
        /\ HasItem(handles[h].processed.state.input, LAMBDA i : i.ty = "Sessions")
        /\ "scrub_attachments" \in StagesRun(handles[h])

\* Outcome emission and client outcomes are both enabled.
ClientOutcomesEnabled == config.emit_outcomes /\ config.emit_client_outcomes

\* C19: with outcome emission and client outcomes enabled, a call of
\* process_client_reports leaves exactly the items that are no client
\* reports, in their order and unchanged, whether the reports parse, carry
\* entries that decode or have a timestamp within the bounds; and for an
\* envelope that came with client reports only the processor returns no
\* envelope.
C19_ClientReportsRemoved ==
    /\ [][(JustRan("process_client_reports") /\ ClientOutcomesEnabled) =>
             worker'.st.envelope = SelectSeq(worker.st.envelope, LAMBDA i : ~IsClientReport(i))]_vars
    /\ [](\A h \in 1..Len(handles) :
             (/\ PipelineRan(handles[h])
              /\ ClientOutcomesEnabled
              /\ \A k \in 1..Len(handles[h].envelope) :
                     IsClientReport(handles[h].envelope[k])) =>
                /\ handles[h].processed.kind = "Ok"
                /\ handles[h].processed.envelope = <<>>)

\* process_client_reports has removed a report that does not parse and kept
\* the session item next to it.
C19_Witness ==
    /\ worker.busy
    /\ ClientOutcomesEnabled
    /\ "process_client_reports" \in Stages(worker.st)
    /\ \E k \in 1..Len(worker.st.input) :
          IsClientReport(worker.st.input[k]) /\ ~worker.st.input[k].ok
    /\ Len(worker.st.envelope) = 1
    /\ IsSessionItem(worker.st.envelope[1])

\* The TrackOutcome messages relayed from client reports.
ClientReportOutcomes(rec) == SelectSeq(rec.outs, LAMBDA t : t.src = "client_report")

\* C20: with outcome emission or client outcomes disabled, a call of
\* process_client_reports emits nothing; on a forwarding relay it leaves the
\* envelope as it is, and on a processing relay it leaves the items that are
\* no client reports. No outcome of a client report is ever sent, and a
\* forwarding relay returns an envelope of client reports as it came.
C20_ClientReportsGated ==
    /\ [][(JustRan("process_client_reports") /\ ~ClientOutcomesEnabled) =>
             /\ worker'.st.outs = worker.st.outs
             /\ worker'.st.envelope =
                   IF config.processing
                   THEN SelectSeq(worker.st.envelope, LAMBDA i : ~IsClientReport(i))
                   ELSE worker.st.envelope]_vars
    /\ [](\A h \in 1..Len(handles) :
             (PipelineRan(handles[h]) /\ ~ClientOutcomesEnabled) =>
                /\ ClientReportOutcomes(handles[h]) = <<>>
                /\ (/\ ~config.processing
                    /\ \A k \in 1..Len(handles[h].envelope) :
                           IsClientReport(handles[h].envelope[k])) =>
                       /\ handles[h].processed.kind = "Ok"
                       /\ handles[h].processed.envelope = handles[h].envelope)

\* A forwarding relay with outcome emission disabled has returned a client
\* report as it came.
C20_Witness ==
    \E h \in 1..Len(handles) :
        /\ PipelineRan(handles[h])
        /\ ~config.processing
        /\ ~config.emit_outcomes
        /\ config.emit_client_outcomes
        /\ handles[h].processed.kind = "Ok"
        /\ handles[h].processed.envelope = handles[h].envelope
        /\ HasItem(handles[h].envelope, IsClientReport)
        /\ handles[h].outs = <<>>

\* The TrackOutcome messages the step has sent.
EmittedByStep ==
    SubSeq(worker'.st.outs, Len(worker.st.outs) + 1, Len(worker'.st.outs))

\* The entries of the client reports of an envelope that parse, taken
\* together, without those whose reason is longer than 200 bytes.
MergedEntries(items) ==
    LET parsed == SelectSeq(items, LAMBDA i : IsClientReport(i) /\ i.ok)
        all == Flatten([k \in 1..Len(parsed) |-> parsed[k].entries])
    IN  SelectSeq(all, LAMBDA e : Len(e.reason) <= 200)

\* The distinct keys (field, reason, category) of entries whose field and
\* reason decode to an outcome.
DecodableKeys(entries) ==
    {key \in {<<entries[k].field, entries[k].reason, entries[k].category>> :
                 k \in 1..Len(entries)} :
        outcome_from_parts(key[1], key[2]) # NoOutcome}

RECURSIVE TotalOf(_, _)
\* The sum of the quantities of the entries of a key.
TotalOf(entries, key) ==
    IF entries = <<>> THEN 0
    ELSE (IF <<Head(entries).field, Head(entries).reason, Head(entries).category>> = key
          THEN Head(entries).quantity ELSE 0) + TotalOf(Tail(entries), key)

\* Outcome, category and quantity of the TrackOutcome message of a key.
KeyOutcome(entries, key) ==
    <<outcome_from_parts(key[1], key[2]), key[3], TotalOf(entries, key)>>

\* A sequence reordered by a permutation of its indices.
Reordered(seq, p) == [k \in 1..Len(seq) |-> seq[p[k]]]

\* The timestamp of the first client report of an envelope that parses and
\* states one.
FirstStated(items) ==
    LET stated == SelectSeq(items, LAMBDA i : IsClientReport(i) /\ i.ok /\ i.ts # None)
    IN  IF stated = <<>> THEN None ELSE stated[1].ts

\* What process_client_reports sends for the envelope of a state.
ReportOutcomes(st, items) ==
    LET after == process_client_reports([st EXCEPT !.envelope = items], config)
    IN  SubSeq(after.outs, Len(st.outs) + 1, Len(after.outs))

\* C21: a call of process_client_reports emits nothing or, for every
\* distinct key (field, reason, category) that decodes among the entries
\* with a reason of at most 200 bytes, exactly one outcome, of the category
\* of the key and with the sum of the quantities of all entries of the key
\* as its quantity; what it emits is the same for every order of the entries
\* inside a report, and for every order of the reports in which the first
\* report that states a timestamp states the same one.
C21_AggregationByKey ==
    [][JustRan("process_client_reports") =>
         LET st == worker.st
             entries == MergedEntries(st.envelope)
             keys == DecodableKeys(entries)
             emitted == EmittedByStep
         IN  /\ \/ emitted = <<>>
                \/ /\ Len(emitted) = Cardinality(keys)
                   /\ \A key \in keys :
                         Cardinality({k \in 1..Len(emitted) :
                             <<emitted[k].outcome, emitted[k].category,
                               emitted[k].quantity>> = KeyOutcome(entries, key)})
                         = Cardinality({other \in keys :
                             KeyOutcome(entries, other) = KeyOutcome(entries, key)})
             /\ \A i \in 1..Len(st.envelope) :
                   \A p \in Permutations(1..Len(st.envelope[i].entries)) :
                       ReportOutcomes(st, [st.envelope EXCEPT
                           ![i].entries = Reordered(@, p)]) = emitted
             /\ \A p \in Permutations(1..Len(st.envelope)) :
                   FirstStated(Reordered(st.envelope, p)) = FirstStated(st.envelope) =>
                       ReportOutcomes(st, Reordered(st.envelope, p)) = emitted]_vars

\* Two client reports with entries of one key have been merged into one
\* outcome that carries the sum of their quantities.
C21_Witness ==
    /\ worker.busy
    /\ "process_client_reports" \in Stages(worker.st)
    /\ Len(worker.st.input) = 2
    /\ worker.st.input[1] # worker.st.input[2]
    /\ \E key \in DecodableKeys(MergedEntries(worker.st.input)) :
          /\ \A i \in 1..2 : \E k \in 1..Len(worker.st.input[i].entries) :
                EntryKey(worker.st.input[i].entries[k]) = key
          /\ Len(worker.st.outs) = Cardinality(DecodableKeys(MergedEntries(worker.st.input)))
          /\ \E k \in 1..Len(worker.st.outs) :
                /\ worker.st.outs[k].category = key[3]
                /\ worker.st.outs[k].quantity = TotalOf(MergedEntries(worker.st.input), key)
                /\ worker.st.outs[k].quantity > 5

\* C21 as stated: what a call of process_client_reports emits is the same
\* for every order of the reports in the envelope.
C21_ReportOrderIrrelevant ==
    [][JustRan("process_client_reports") =>
         \A p \in Permutations(1..Len(worker.st.envelope)) :
             ReportOutcomes(worker.st, Reordered(worker.st.envelope, p))
                 = EmittedByStep]_vars

\* The timestamp the merged client reports of an envelope are given: that of
\* the first report that states one, the receive time if none does, moved by
\* the drift between the sent_at header and the receive time if that drift
\* is 55 minutes or more.
MergedTimestamp(items, sent_at) ==
    LET base == IF FirstStated(items) = None THEN received_at ELSE FirstStated(items)[1]
        drift == IF sent_at = None THEN 0 ELSE received_at - sent_at[1]
    IN  IF drift >= 55 * 60 \/ drift <= 0 - 55 * 60 THEN base + drift ELSE base

\* C22: a call of process_client_reports removes the client reports; if the
\* merged timestamp is older than received - max_secs_in_past or later than
\* received + max_secs_in_future it emits no outcome at all, and otherwise
\* it emits the outcome of every key that decodes, each with the merged
\* timestamp.
C22_MergedTimestampBounds ==
    [][JustRan("process_client_reports") =>
         LET st == worker.st
             timestamp == MergedTimestamp(st.envelope, st.sent_at)
             emitted == EmittedByStep
         IN  /\ worker'.st.envelope = SelectSeq(st.envelope, LAMBDA i : ~IsClientReport(i))
             /\ IF \/ timestamp < received_at - max_secs_in_past
                   \/ timestamp > received_at + max_secs_in_future
                THEN emitted = <<>>
                ELSE /\ Len(emitted) = Cardinality(DecodableKeys(MergedEntries(st.envelope)))
                     /\ \A k \in 1..Len(emitted) : emitted[k].timestamp = timestamp]_vars

\* Of two reports the first states a timestamp that is too old by itself and
\* the second one that is not; the client's clock is 55 minutes behind, and
\* the outcomes have been emitted with the corrected timestamp of the first.
C22_Witness ==
    /\ worker.busy
    /\ "process_client_reports" \in Stages(worker.st)
    /\ worker.st.sent_at = Some(received_at - 55 * 60)
    /\ Len(worker.st.input) = 2
    /\ worker.st.input[1].ts = Some(received_at - max_secs_in_past - 1)
    /\ worker.st.input[2].ts = Some(received_at)
    /\ worker.st.envelope = <<>>
    /\ worker.st.outs # <<>>
    /\ \A k \in 1..Len(worker.st.outs) :
          worker.st.outs[k].timestamp = received_at - max_secs_in_past - 1 + 55 * 60

\* All entries of the client reports of an envelope that parse.
AllEntries(items) ==
    LET parsed == SelectSeq(items, LAMBDA i : IsClientReport(i) /\ i.ok)
    IN  Flatten([k \in 1..Len(parsed) |-> parsed[k].entries])

\* The envelope without the entries whose reason is 201 bytes or longer.
WithoutOverlong(items) ==
    [i \in 1..Len(items) |->
        [items[i] EXCEPT !.entries = SelectSeq(@, LAMBDA e : Len(e.reason) < 201)]]

\* The merged timestamp of the client reports is within the bounds.
MergedTimestampInBounds(st) ==
    LET timestamp == MergedTimestamp(st.envelope, st.sent_at)
    IN  /\ timestamp >= received_at - max_secs_in_past
        /\ timestamp <= received_at + max_secs_in_future

\* C23: a call of process_client_reports emits what it emits for the same
\* envelope without the entries whose reason is 201 bytes or longer, and no
\* ClientDiscard outcome with a reason longer than 200 bytes; and if the merged timestamp
\* is within the bounds, every entry with a reason of exactly 200 bytes that
\* decodes is counted in an outcome that carries the whole reason and the sum
\* of the quantities of the entries of its key.
C23_OverlongReasonDropped ==
    [][JustRan("process_client_reports") =>
         LET st == worker.st
             emitted == EmittedByStep
             entries == AllEntries(st.envelope)
         IN  /\ ReportOutcomes(st, WithoutOverlong(st.envelope)) = emitted
             /\ \A k \in 1..Len(emitted) :
                   emitted[k].outcome.kind = "ClientDiscard" =>
                       Len(emitted[k].outcome.arg) <= 200
             /\ MergedTimestampInBounds(st) =>
                   \A n \in 1..Len(entries) :
                       (/\ Len(entries[n].reason) = 200
                        /\ outcome_from_parts(entries[n].field, entries[n].reason) # NoOutcome) =>
                           \E k \in 1..Len(emitted) :
                               /\ emitted[k].outcome =
                                      outcome_from_parts(entries[n].field, entries[n].reason)
                               /\ Len(emitted[k].outcome.arg) >= 200
                               /\ emitted[k].category = entries[n].category
                               /\ emitted[k].quantity = TotalOf(entries, EntryKey(entries[n]))]_vars

\* A report with reasons of 201, 10 and 200 bytes has yielded two outcomes:
\* the one of the short reason and the one of the reason of 200 bytes.
C23_Witness ==
    /\ worker.busy
    /\ "process_client_reports" \in Stages(worker.st)
    /\ Len(worker.st.input) = 1
    /\ \E n \in 1..Len(worker.st.input[1].entries) :
          Len(worker.st.input[1].entries[n].reason) = 201
    /\ Len(worker.st.outs) = 2
    /\ \E k \in 1..2 : Len(worker.st.outs[k].outcome.arg) = 200
    /\ \E k \in 1..2 : worker.st.outs[k].outcome.arg = "queue_full"
    /\ \A k \in 1..2 : worker.st.outs[k].quantity \in {1, 2}

\* The fields of a client report.
ClientReportFields == {"Filtered", "FilteredSampling", "RateLimited", "ClientDiscard"}

\* What the reasons of the model decode to, field by field: the rule id of
\* "Sampled:" followed by an unsigned 64-bit integer, the filter of a known
\* filter key, no reason code for the empty reason and the reason as the
\* code otherwise, the reason as it is.
Decoded(field, reason) ==
    CASE field = "FilteredSampling" ->
            CASE reason = "Sampled:123" -> Outcome("FilteredSampling", "123")
              [] reason = "Sampled:007" -> Outcome("FilteredSampling", "7")
              [] reason = "Sampled:+5" -> Outcome("FilteredSampling", "5")
              [] reason = "Sampled:18446744073709551615" ->
                    Outcome("FilteredSampling", "18446744073709551615")
              [] OTHER -> NoOutcome
      [] field = "Filtered" ->
            IF reason = "error-message" THEN Outcome("Filtered", "error-message")
            ELSE NoOutcome
      [] field = "RateLimited" ->
            IF reason = "" THEN Outcome("RateLimited", "None")
            ELSE Outcome("RateLimited", "Some(" \o reason \o ")")
      [] OTHER -> Outcome("ClientDiscard", reason)

\* The distinct keys of entries.
KeysOf(entries) == {EntryKey(entries[k]) : k \in 1..Len(entries)}

\* C24: in a call of process_client_reports every (field, reason) decodes as
\* stated; if the merged timestamp is within the bounds, the call emits
\* exactly one outcome for every key whose (field, reason) decodes, with the
\* decoded outcome, the category of the key and the quantity of its entries,
\* whatever other keys fail to decode.
C24_OutcomeFromParts ==
    [][JustRan("process_client_reports") =>
         LET st == worker.st
             emitted == EmittedByStep
             entries == MergedEntries(st.envelope)
             good == {key \in KeysOf(entries) : Decoded(key[1], key[2]) # NoOutcome}
             Message(key) == <<Decoded(key[1], key[2]), key[3], TotalOf(entries, key)>>
         IN  /\ \A field \in ClientReportFields : \A n \in 1..Len(Reasons) :
                   outcome_from_parts(field, Reasons[n]) = Decoded(field, Reasons[n])
             /\ MergedTimestampInBounds(st) =>
                   /\ Len(emitted) = Cardinality(good)
                   /\ \A key \in good :
                         Cardinality({k \in 1..Len(emitted) :
                             <<emitted[k].outcome, emitted[k].category,
                               emitted[k].quantity>> = Message(key)})
                         = Cardinality({other \in good : Message(other) = Message(key)})]_vars

\* A report with four FilteredSampling entries, of which one states a rule
\* id, has yielded the one outcome FilteredSampling(18446744073709551615).
C24_Witness ==
    /\ worker.busy
    /\ "process_client_reports" \in Stages(worker.st)
    /\ Len(worker.st.input) = 1
    /\ Len(worker.st.input[1].entries) = 4
    /\ \A n \in 1..4 : worker.st.input[1].entries[n].field = "FilteredSampling"
    /\ Len(worker.st.outs) = 1
    /\ worker.st.outs[1].outcome = Outcome("FilteredSampling", "18446744073709551615")

\* The drift that is applied to the timestamps of an envelope: the
\* difference between the receive time and the sent_at header if that is 55
\* minutes or more.
AppliedDrift(sent_at) ==
    LET drift == IF sent_at = None THEN 0 ELSE received_at - sent_at[1]
    IN  IF drift >= 55 * 60 \/ drift <= 0 - 55 * 60 THEN drift ELSE 0

\* A time within [received - max_session_secs_in_past,
\* received + max_secs_in_future].
InSessionBounds(t) ==
    /\ t >= received_at - max_session_secs_in_past
    /\ t <= received_at + max_secs_in_future

\* The metrics of an item have been extracted once process_sessions has
\* looked at its metrics_extracted flag.
ExtractedAfter(item, st) == item.mx \/ st.project_state.session_metrics.enabled

\* A session or session aggregates item survives process_sessions: it
\* parses, its sequence number is not u64::MAX, started and the later of
\* started and timestamp lie within the bounds after drift correction (for
\* aggregates: the started time of at least one aggregate does), its release
\* validates, and it is not dropped after metric extraction.
SessionSurvives(item, st) ==
    LET drift == AppliedDrift(st.sent_at)
    IN  /\ item.ok
        /\ item.release_ok
        /\ ~(st.project_state.session_metrics.drop /\ ExtractedAfter(item, st))
        /\ IF item.ty = "Session"
           THEN /\ ~item.seq_max
                /\ InSessionBounds(item.started[1] + drift)
                /\ InSessionBounds(IF item.ts[1] < item.started[1]
                                   THEN item.started[1] + drift ELSE item.ts[1] + drift)
           ELSE \E k \in 1..Len(item.aggregates) :
                    InSessionBounds(item.aggregates[k] + drift)

\* What process_sessions leaves unchanged in an item.
SessionIdentity(item) ==
    [ty |-> item.ty, ok |-> item.ok, seq_max |-> item.seq_max,
     release_ok |-> item.release_ok, len |-> item.len]

\* C25: a call of process_sessions keeps the items of other types and
\* exactly the session and session aggregates items that parse, have a sequence number other than u64::MAX,
\* have started and the later of started and timestamp within
\* [received - max_session_secs_in_past, received + max_secs_in_future]
\* after drift correction (for aggregates: at least one aggregate), have a
\* release that validates, and are not dropped after metric extraction.
C25_SessionSurvives ==
    [][JustRan("process_sessions") =>
         LET st == worker.st
             survivors == SelectSeq(st.envelope,
                              LAMBDA i : ~IsSessionItem(i) \/ SessionSurvives(i, st))
         IN  /\ Len(worker'.st.envelope) = Len(survivors)
             /\ \A k \in 1..Len(survivors) :
                   SessionIdentity(worker'.st.envelope[k]) = SessionIdentity(survivors[k])]_vars

\* A session with a sequence number of u64::MAX has been dropped, and a
\* session whose timestamp was too old and before started has been kept
\* with its timestamp set to started.
C25_Witness ==
    /\ worker.busy
    /\ "process_sessions" \in Stages(worker.st)
    /\ worker.st.sent_at = None
    /\ Len(worker.st.input) = 2
    /\ worker.st.input[1].ty = "Session" /\ worker.st.input[1].seq_max
    /\ worker.st.input[2] = Session(received_at, received_at - max_session_secs_in_past - 1)
    /\ worker.st.envelope = <<Session(received_at, received_at)>>

\* C25 as stated: a call of process_sessions keeps a session that parses if
\* and only if its started time and its timestamp lie within the bounds
\* after drift correction and its release validates.
C25_SurvivesIffInBounds ==
    [][JustRan("process_sessions") =>
         LET st == worker.st
             drift == AppliedDrift(st.sent_at)
             InBounds(i) == /\ InSessionBounds(i.started[1] + drift)
                            /\ InSessionBounds(i.ts[1] + drift)
                            /\ i.release_ok
         IN  (\A k \in 1..Len(st.envelope) :
                 st.envelope[k].ty = "Session" /\ st.envelope[k].ok) =>
             Len(worker'.st.envelope) = Len(SelectSeq(st.envelope, InBounds))]_vars

\* A session or session aggregates item passes the validation of its
\* processor: all that keeps it but for the drop after metric extraction.
PassesValidation(item, st) ==
    SessionSurvives(item, [st EXCEPT !.project_state.session_metrics.drop = FALSE])

\* The calls of extract_session_metrics for an item that is extracted: one
\* for a session, one for each valid aggregate of a session aggregates item.
ExtractionCalls(item, st) ==
    IF item.ty = "Session" THEN 1
    ELSE Len(SelectSeq(item.aggregates,
                       LAMBDA t : InSessionBounds(t + AppliedDrift(st.sent_at))))

RECURSIVE TotalCalls(_, _)
\* The calls of extract_session_metrics for the items of an envelope that
\* pass validation while extraction is enabled and their flag is not set.
TotalCalls(items, st) ==
    IF items = <<>> THEN 0
    ELSE (IF /\ IsSessionItem(Head(items))
             /\ PassesValidation(Head(items), st)
             /\ st.project_state.session_metrics.enabled
             /\ ~Head(items).mx
          THEN ExtractionCalls(Head(items), st) ELSE 0)
         + TotalCalls(Tail(items), st)

\* C26: a call of process_sessions extracts session metrics from exactly the
\* session and session aggregates items that pass validation while
\* extraction is enabled and their metrics_extracted flag is false, and sets
\* the flag of these items; a second call of process_sessions on what the
\* first has left appends no metrics; and with "drop after metric
\* extraction" configured no session item with the flag set is left.
C26_SessionMetricsOnce ==
    [][JustRan("process_sessions") =>
         LET st == worker.st
             metrics_config == st.project_state.session_metrics
             survivors == SelectSeq(st.envelope,
                              LAMBDA i : ~IsSessionItem(i) \/ SessionSurvives(i, st))
             again == process_sessions(worker'.st)
         IN  /\ Len(worker'.st.extracted_metrics)
                   = Len(st.extracted_metrics) + TotalCalls(st.envelope, st)
             /\ Len(worker'.st.envelope) = Len(survivors)
             /\ \A k \in 1..Len(survivors) :
                   IsSessionItem(survivors[k]) =>
                       worker'.st.envelope[k].mx
                           = (survivors[k].mx \/ metrics_config.enabled)
             /\ again.extracted_metrics = worker'.st.extracted_metrics
             /\ metrics_config.drop =>
                   \A k \in 1..Len(worker'.st.envelope) :
                       IsSessionItem(worker'.st.envelope[k]) => ~worker'.st.envelope[k].mx]_vars

\* Of two sessions one came with the flag set and one without; metrics have
\* been extracted once, and both sessions are left with the flag set.
C26_Witness ==
    /\ worker.busy
    /\ "process_sessions" \in Stages(worker.st)
    /\ worker.st.project_state.session_metrics = [enabled |-> TRUE, drop |-> FALSE]
    /\ Len(worker.st.input) = 2
    /\ worker.st.input[1].ty = "Session" /\ worker.st.input[1].mx
    /\ worker.st.input[2].ty = "Session" /\ ~worker.st.input[2].mx
    /\ Len(worker.st.extracted_metrics) = 1
    /\ Len(worker.st.envelope) = 2
    /\ worker.st.envelope[1].mx /\ worker.st.envelope[2].mx

IsUserReport(i) == i.ty = "UserReport"

\* A user report with the canonical serialization of its typed form as its
\* payload; any other item as it is.
Canonical(item) ==
    IF IsUserReport(item) THEN [item EXCEPT !.extra = FALSE] ELSE item

\* C27: a call of process_user_reports removes the user reports that do not
\* parse, gives every user report that parses its canonical serialization
\* as payload, leaves every other item as it is and in its place, and emits
\* no outcome; and the processor returns an envelope of one Event item for
\* an envelope of a minimal event and a user report that does not parse,
\* without having emitted an outcome.
C27_InvalidUserReportRemoved ==
    /\ [][JustRan("process_user_reports") =>
             LET left == SelectSeq(worker.st.envelope,
                                   LAMBDA i : ~IsUserReport(i) \/ i.ok)
             IN  /\ worker'.st.envelope = [k \in 1..Len(left) |-> Canonical(left[k])]
                 /\ worker'.st.outs = worker.st.outs]_vars
    /\ [](\A h \in 1..Len(handles) :
             (/\ PipelineRan(handles[h])
              /\ Len(handles[h].envelope) = 2
              /\ \E k \in 1..2 :
                    /\ handles[h].envelope[k] = Item("UserReport", "None", 1, FALSE)
                    /\ handles[h].envelope[3 - k] = Item("Event", "None", 1, TRUE)) =>
                /\ handles[h].processed.kind = "Ok"
                /\ Len(handles[h].processed.envelope) = 1
                /\ handles[h].processed.envelope[1].ty = "Event"
                /\ handles[h].outs = <<>>)

\* A forwarding relay has returned one Event item for the envelope of a
\* user report that does not parse and a minimal event.
C27_Witness ==
    \E h \in 1..Len(handles) :
        /\ PipelineRan(handles[h])
        /\ ~config.processing
        /\ handles[h].envelope = <<Item("UserReport", "None", 1, FALSE),
                                   Item("Event", "None", 1, TRUE)>>
        /\ handles[h].processed.kind = "Ok"
        /\ Len(handles[h].processed.envelope) = 1
        /\ handles[h].processed.envelope[1].ty = "Event"
        /\ handles[h].outs = <<>>

\* A profile the processing relay can parse: it parses, its platform is
\* android, cocoa, typescript or rust, and the parser of the platform
\* accepts it.
Parseable(item) ==
    item.ok /\ item.platform \in {"android", "cocoa", "typescript", "rust"} /\ item.body_ok

\* C28: a call of process_profiles leaves every item that is no profile in
\* its place; without the profiling feature it removes every profile and
\* emits nothing; with the feature on a processing relay it keeps the
\* profiles that parse for a platform it knows and emits exactly one
\* Invalid(ProcessProfile) outcome of category Profile and quantity 1 for
\* every other profile; with the feature on a forwarding relay it leaves
\* the envelope as it is and emits nothing.
C28_ProfilesNeedFeature ==
    [][JustRan("process_profiles") =>
         LET st == worker.st
             emitted == EmittedByStep
             profiles == SelectSeq(st.envelope, IsProfile)
             others == SelectSeq(st.envelope, LAMBDA i : ~IsProfile(i))
         IN  /\ SelectSeq(worker'.st.envelope, LAMBDA i : ~IsProfile(i)) = others
             /\ IF ~st.project_state.profiling
                THEN worker'.st.envelope = others /\ emitted = <<>>
                ELSE IF ~config.processing
                THEN worker'.st.envelope = st.envelope /\ emitted = <<>>
                ELSE /\ Len(SelectSeq(worker'.st.envelope, IsProfile))
                           = Len(SelectSeq(profiles, Parseable))
                     /\ \A k \in 1..Len(worker'.st.envelope) :
                           IsProfile(worker'.st.envelope[k]) =>
                               Parseable(worker'.st.envelope[k])
                     /\ Len(emitted) = Len(profiles) - Len(SelectSeq(profiles, Parseable))
                     /\ \A k \in 1..Len(emitted) :
                           /\ emitted[k].outcome = Outcome("Invalid", "ProcessProfile")
                           /\ emitted[k].category = "Profile"
                           /\ emitted[k].quantity = 1]_vars

\* A processing relay has kept the android profile of a project with the
\* feature and dropped the profile of a platform without a parser with one
\* outcome.
C28_Witness ==
    /\ worker.busy
    /\ config.processing
    /\ worker.st.project_state.profiling
    /\ "process_profiles" \in Stages(worker.st)
    /\ "if_creates_event" \notin Stages(worker.st)
    /\ worker.st.input = <<Profile("python"), Profile("android")>>
    /\ Len(worker.st.envelope) = 1
    /\ worker.st.envelope[1].platform = "android"
    /\ worker.st.outs = <<Track("process_profiles", Outcome("Invalid", "ProcessProfile"),
                               "Profile", 1)>>

\* The quota service reports a limit for the category of the event that
\* has been extracted into the state.
EventCategoryLimited(st, o) ==
    /\ o.fault # "quotas_failed"
    /\ o.quota = "event"
    /\ st.event.present
    /\ event_category(st) # "None"

\* C29: when enforce_quotas runs with a rate limiter and project quotas and
\* the quota service limits the category of the extracted event, the event
\* is removed from the state, the envelope is empty at that point (the
\* debug assertion holds) and the run serializes no event item afterwards;
\* when there is no rate limiter or the project has no quotas, the call
\* changes nothing and the rate limits stay empty.
C29_EnforceQuotasRemovesEvent ==
    /\ [][JustRan("enforce_quotas") =>
             LET st == worker.st
             IN  IF ~config.rate_limiter \/ ~st.project_state.has_quotas
                 THEN /\ worker'.st = Ran(st, "enforce_quotas")
                      /\ ~worker'.st.rate_limits
                 ELSE EventCategoryLimited(st, worker.o) =>
                         /\ ~worker'.st.event.present
                         /\ worker'.st.envelope = <<>>
                         /\ worker'.st.rate_limits]_vars
    /\ [](\A st \in PipeStates :
             ("enforce_quotas" \in Stages(st) /\ st.remove_event) =>
                 /\ "serialize_event" \notin Stages(st)
                 /\ ~HasItem(st.envelope, LAMBDA i : i.ty \in {"Event", "Transaction", "Security"}))

\* The event of an envelope with an attachment has been rate limited: event
\* and attachment are gone.
C29_Witness ==
    /\ worker.busy
    /\ config.rate_limiter
    /\ worker.st.project_state.has_quotas
    /\ worker.o.quota = "event"
    /\ "enforce_quotas" \in Stages(worker.st)
    /\ HasItem(worker.st.input, IsPlainAttachment)
    /\ worker.st.remove_event
    /\ ~worker.st.event.present
    /\ worker.st.envelope = <<>>
    /\ worker.st.rate_limits

\* A processing relay without rate limiter has passed enforce_quotas with
\* the event of a project that has quotas.
C29_WitnessNoLimiter ==
    /\ worker.busy
    /\ config.processing
    /\ ~config.rate_limiter
    /\ worker.st.project_state.has_quotas
    /\ worker.o.quota = "event"
    /\ "enforce_quotas" \in Stages(worker.st)
    /\ worker.st.event.present
    /\ ~worker.st.rate_limits

\* The HandleEnvelope messages a step has queued and the ProcessMetrics
\* messages it has sent.
QueuedByStep == SubSeq(handles', Len(handles) + 1, Len(handles'))
MetricsSentByStep == SubSeq(metric_msgs', Len(metric_msgs) + 1, Len(metric_msgs'))

\* How often an item occurs in a sequence of items.
Occurrences(items, item) == Len(SelectSeq(items, LAMBDA i : i = item))

\* C30: a QueueEnvelope that is accepted sends the Metrics and MetricBuckets
\* items of the envelope, and only them, to the processor in a
\* ProcessMetrics message; every other item is in exactly one queued
\* HandleEnvelope; no queued envelope holds both an item that requires an
\* event and one that does not; no queued envelope is empty;
\* active_envelopes grows by the number of envelopes queued; and the reply
\* is Ok with the event id of the envelope.
C30_QueueEnvelopePartitions ==
    [][\A env \in Envelopes :
          (budget' # budget /\ ~BufferFull(active_envelopes) /\ QueueEnvelope(env)) =>
             LET queued == [k \in 1..Len(QueuedByStep) |-> QueuedByStep[k].envelope]
                 items == Flatten(queued)
                 metrics == Flatten(MetricsSentByStep)
             IN  /\ Len(handles') >= Len(handles)
                 /\ SubSeq(handles', 1, Len(handles)) = handles
                 /\ Len(metric_msgs') >= Len(metric_msgs)
                 /\ SubSeq(metric_msgs', 1, Len(metric_msgs)) = metric_msgs
                 /\ metrics = SelectSeq(env.items, is_metric)
                 /\ Len(MetricsSentByStep) <= 1
                 /\ \A k \in 1..Len(MetricsSentByStep) : MetricsSentByStep[k] # <<>>
                 /\ ~HasItem(items, is_metric)
                 /\ Len(items) + Len(metrics) = Len(env.items)
                 /\ \A k \in 1..Len(env.items) :
                       ~is_metric(env.items[k]) =>
                           Occurrences(items, env.items[k])
                               = Occurrences(env.items, env.items[k])
                 /\ \A k \in 1..Len(queued) :
                       /\ queued[k] # <<>>
                       /\ ~(HasItem(queued[k], requires_event)
                            /\ HasItem(queued[k], LAMBDA i : ~requires_event(i)))
                       /\ QueuedByStep[k].phase = "queued"
                 /\ active_envelopes' = active_envelopes + Len(queued)
                 /\ last_reply' = OkReply(env.event_id)]_vars

\* The envelope with an event, a session and a metrics item has been
\* queued: the event and the session wait in two envelopes and the metrics
\* item has gone to the processor.
C30_Witness ==
    /\ last_reply = OkReply(EnvelopeId)
    /\ active_envelopes = 2
    /\ Len(handles) = 2
    /\ handles[1].envelope = <<Item("Event", "None", 1, TRUE)>>
    /\ handles[1].phase = "queued"
    /\ handles[2].envelope = <<Session(received_at, received_at)>>
    /\ handles[2].phase = "queued"
    /\ metric_msgs = <<(<<Item("Metrics", "None", 1, TRUE)>>)>>

\* The breadcrumbs of an attachment an envelope came with: none if the
\* attachment is absent or its payload is empty.
CrumbsOf(items, n) ==
    LET attachments == SelectSeq(items, IsBreadcrumbs)
    IN  IF Len(attachments) >= n THEN attachments[n].crumbs ELSE <<>>

\* The positions of the breadcrumbs of a list that have a timestamp.
Stamped(crumbs) == {k \in 1..Len(crumbs) : crumbs[k].ts # None}

\* The first list ends later than the second: its last timestamped
\* breadcrumb is later, or only the first has a timestamp at all.
EndsLater(crumbs1, crumbs2) ==
    /\ Stamped(crumbs1) # {}
    /\ \/ Stamped(crumbs2) = {}
       \/ LET k1 == CHOOSE k \in Stamped(crumbs1) : \A j \in Stamped(crumbs1) : j <= k
              k2 == CHOOSE k \in Stamped(crumbs2) : \A j \in Stamped(crumbs2) : j <= k
          IN  crumbs1[k1].ts[1] > crumbs2[k2].ts[1]

\* The last n elements of a list.
LastOf(crumbs, n) == SubSeq(crumbs, Len(crumbs) - n + 1, Len(crumbs))

Longest(crumbs1, crumbs2) ==
    IF Len(crumbs1) >= Len(crumbs2) THEN Len(crumbs1) ELSE Len(crumbs2)

\* extract_event has built the event from the attachments of the envelope.
FromAttachments ==
    /\ JustRan("extract_event")
    /\ worker'.st.err = NoError
    /\ SelectedSource(worker.st.envelope) = "Attachments"

\* C31: when extract_event builds the event from attachments, the event's
\* breadcrumbs are max(len1, len2) many; they are the last max(len1, len2)
\* elements of the two lists concatenated with the list that ends later
\* (by its last timestamped breadcrumb, a list without timestamp being
\* earliest) placed last; an absent or empty attachment adds nothing and
\* is no error, so that the other list is the result.
C31_BreadcrumbsMerged ==
    [][FromAttachments =>
          LET crumbs1 == CrumbsOf(worker.st.envelope, 1)
              crumbs2 == CrumbsOf(worker.st.envelope, 2)
              merged == worker'.st.breadcrumbs
              n == Longest(crumbs1, crumbs2)
          IN  /\ worker'.st.event.present
              /\ Len(merged) = n
              /\ EndsLater(crumbs1, crumbs2) => merged = LastOf(crumbs2 \o crumbs1, n)
              /\ EndsLater(crumbs2, crumbs1) => merged = LastOf(crumbs1 \o crumbs2, n)
              /\ merged \in {LastOf(crumbs1 \o crumbs2, n), LastOf(crumbs2 \o crumbs1, n)}
              /\ crumbs1 = <<>> => merged = crumbs2
              /\ crumbs2 = <<>> => merged = crumbs1]_vars

\* The envelope of test_breadcrumbs_reversed_with_none has passed
\* extract_event: the later list came first and its breadcrumb is last.
C31_Witness ==
    /\ worker.busy
    /\ "extract_event" \in Stages(worker.st)
    /\ worker.st.err = NoError
    /\ worker.st.input = <<Breadcrumbs(<<Crumb(Some(d2), "d2")>>),
                           Breadcrumbs(<<Crumb(None, "none"), Crumb(Some(d1), "d1")>>)>>
    /\ worker.st.breadcrumbs = <<Crumb(Some(d1), "d1"), Crumb(Some(d2), "d2")>>

\* The call of extract_transaction_metrics has returned.
MetricsReturned == worker.type = "extract_transaction_metrics" /\ worker.returned # None

\* The metrics the call has appended to the target.
Appended == SubSeq(worker.target, Len(worker.call.target) + 1, Len(worker.target))

\* C32: when extract_transaction_metrics has returned, the metrics that
\* were in the target are still there, unchanged and in front; every
\* metric appended has a name on the allow-list extract_metrics; nothing
\* is appended with an empty allow-list, for an event that is no
\* transaction and for timestamps that do not validate; a tag of a
\* conditional-tagging rule is found on appended metrics only; and the value
\* returned is true exactly if a metric was appended.
C32_OnlyAllowedMetricsAppended ==
    MetricsReturned =>
        LET call == worker.call
            before == call.target
        IN  /\ Len(worker.target) >= Len(before)
            /\ SubSeq(worker.target, 1, Len(before)) = before
            /\ \A k \in 1..Len(Appended) :
                  Appended[k].name \in call.config.extract_metrics
            /\ (\/ call.config.extract_metrics = {}
                \/ call.event.ty # "Transaction"
                \/ ~call.event.timestamps_ok) => Appended = <<>>
            /\ \A k \in 1..Len(Appended) :
                  (/\ call.conditional_tagging_config # <<>>
                   /\ Appended[k].name = DurationName) =>
                      /\ "rule" \in DOMAIN Appended[k].tags
                      /\ Appended[k].tags["rule"] = "second"
            /\ worker.returned = Some(Appended # <<>>)

\* A call with a metric in the target, tagging rules and an allow-list of
\* duration and user has returned true for a transaction with measurements:
\* two metrics are appended, the measurement is not.
C32_Witness ==
    /\ MetricsReturned
    /\ worker.call.target # <<>>
    /\ worker.call.conditional_tagging_config # <<>>
    /\ worker.call.config.extract_metrics = {DurationName, UserName}
    /\ worker.call.event.measurements # <<>>
    /\ Len(Appended) = 2
    /\ worker.target[1].tags = NoTags
    /\ worker.returned = Some(TRUE)

\* The threshold the configuration names for a transaction: the override of
\* its name if there is one, else the threshold of the project.
ThresholdFor(thresholds, event) ==
    IF /\ event.transaction # None
       /\ event.transaction[1] \in DOMAIN thresholds.transaction_thresholds
    THEN thresholds.transaction_thresholds[event.transaction[1]]
    ELSE thresholds.project_threshold

\* The value of the threshold's metric for the transaction, if it has one.
ValueFor(threshold, event) ==
    IF threshold.metric = "duration"
    THEN Some(event.timestamp - event.start_timestamp)
    ELSE IF threshold.metric = "lcp"
    THEN IF \E k \in 1..Len(event.measurements) :
                event.measurements[k].name = "lcp" /\ event.measurements[k].value # None
         THEN (CHOOSE m \in {event.measurements[k] : k \in 1..Len(event.measurements)} :
                  m.name = "lcp" /\ m.value # None).value
         ELSE None
    ELSE None

Satisfaction(value, threshold) ==
    IF value <= threshold THEN "satisfied"
    ELSE IF value <= 4 * threshold THEN "tolerated"
    ELSE "frustrated"

\* C33: when satisfaction thresholds are configured and the metric of the
\* selected threshold (the override of the transaction name before the
\* project threshold) has a value for the transaction, every duration and
\* user metric extracted carries the tag satisfaction with the value
\* satisfied for value <= threshold, tolerated for value <= 4 * threshold
\* and frustrated otherwise; when the metric of the threshold is unknown,
\* no metric carries a satisfaction tag.
C33_SatisfactionOnDurationAndUser ==
    (MetricsReturned /\ worker.call.config.satisfaction_thresholds # None) =>
        LET event == worker.call.event
            threshold == ThresholdFor(worker.call.config.satisfaction_thresholds[1], event)
            value == ValueFor(threshold, event)
        IN  \A k \in 1..Len(Appended) :
               /\ (value # None /\ Appended[k].name \in {DurationName, UserName}) =>
                     /\ "satisfaction" \in DOMAIN Appended[k].tags
                     /\ Appended[k].tags["satisfaction"]
                           = Satisfaction(value[1], threshold.threshold)
               /\ threshold.metric = "unknown" =>
                     "satisfaction" \notin DOMAIN Appended[k].tags

\* The same for the user metric and for the duration metric of a
\* transaction without trace status.
C33_SatisfactionWithoutStatus ==
    (MetricsReturned /\ worker.call.config.satisfaction_thresholds # None) =>
        LET event == worker.call.event
            threshold == ThresholdFor(worker.call.config.satisfaction_thresholds[1], event)
            value == ValueFor(threshold, event)
        IN  \A k \in 1..Len(Appended) :
               /\ (/\ value # None
                   /\ \/ Appended[k].name = UserName
                      \/ Appended[k].name = DurationName /\ event.status = None) =>
                     /\ "satisfaction" \in DOMAIN Appended[k].tags
                     /\ Appended[k].tags["satisfaction"]
                           = Satisfaction(value[1], threshold.threshold)
               /\ (Appended[k].name = DurationName /\ event.status # None) =>
                     "satisfaction" \notin DOMAIN Appended[k].tags
               /\ threshold.metric = "unknown" =>
                     "satisfaction" \notin DOMAIN Appended[k].tags

---------------------------------------------------------------------------
\* C34: check_disabled answers Ok for a state that is Expired (last fetched
\* at least its expiry plus the grace period ago), also when the state is
\* disabled or invalid; for a state that is not Expired it answers
\* Err(ProjectState) when the state is invalid, otherwise Err(ProjectId)
\* when it is disabled, otherwise Ok. So a disabled project is accepted
\* again once its cached state has expired.
ExpiryOf(state) ==
    IF state.project_id = None THEN cache_miss_expiry ELSE project_cache_expiry

IsExpired(state, now) ==
    now - state.last_fetch >= ExpiryOf(state) + project_grace_period

Checked == project'.checked # "none" /\ project'.checked # project.checked

C34_CheckDisabled ==
    [][Checked =>
         LET state == project.state[1]
         IN  project'.checked =
                 IF IsExpired(state, project.now) THEN "Ok"
                 ELSE IF state.invalid THEN "Err(ProjectState)"
                 ELSE IF state.disabled THEN "Err(ProjectId)"
                 ELSE "Ok"]_vars

\* A disabled state that has expired is checked and found Ok.
C34_Witness ==
    /\ project.key # "none"
    /\ project.state # None
    /\ project.state[1].disabled
    /\ project.state[1].project_id # None
    /\ IsExpired(project.state[1], project.now)
    /\ project.checked = "Ok"

\* An invalid state that has not expired is checked and refused as invalid.
C34_WitnessInvalid ==
    /\ project.key # "none"
    /\ project.state # None
    /\ project.state[1].invalid
    /\ ~IsExpired(project.state[1], project.now)
    /\ project.checked = "Err(ProjectState)"

---------------------------------------------------------------------------
\* C35: get_or_fetch_state without no_cache returns an Updated cached state
\* at once and requests no fetch; it returns a Stale cached state at once
\* and a fetch is in flight afterwards; without a state or with an Expired
\* one the caller gets a pending future and a fetch is in flight
\* afterwards. With an effective no_cache the cached state is never
\* returned, whatever its expiry.
ExpiryClass(p) ==
    IF p.state = None THEN "None"
    ELSE IF IsExpired(p.state[1], p.now) THEN "Expired"
    ELSE IF p.now - p.state[1].last_fetch >= ExpiryOf(p.state[1]) THEN "Stale"
    ELSE "Updated"

\* A state channel is pending and a request is unanswered whose response
\* the channel takes.
InFlight(p) ==
    /\ p.state_channel # None
    /\ \E k \in 1..Len(p.fetches) :
          /\ ~p.fetches[k].answered
          /\ p.state_channel[1].no_cache => p.fetches[k].no_cache

Got == project'.gets = project.gets + 1

GotFuture(p) ==
    /\ p.reply.kind = "future"
    /\ p.reply.waiter = Len(p.waiters)
    /\ p.waiters[p.reply.waiter] = Pending

C35_GetOrFetchState ==
    [][Got =>
         LET no_cache == project'.reply.no_cache
             class == ExpiryClass(project)
         IN  /\ ~no_cache /\ class = "Updated" =>
                   /\ project'.reply.kind = "ok"
                   /\ project'.reply.state = project.state
                   /\ project'.fetches = project.fetches
                   /\ project'.state_channel = project.state_channel
             /\ ~no_cache /\ class = "Stale" =>
                   /\ project'.reply.kind = "ok"
                   /\ project'.reply.state = project.state
                   /\ InFlight(project')
             /\ ~no_cache /\ class \in {"None", "Expired"} =>
                   /\ GotFuture(project')
                   /\ InFlight(project')
             /\ no_cache =>
                   /\ GotFuture(project')
                   /\ InFlight(project')
                   /\ project'.state_channel[1].no_cache]_vars

\* A caller has got the Stale state at once and a fetch is in flight.
C35_Witness ==
    /\ project.key # "none"
    /\ project.reply.kind = "ok"
    /\ ~project.reply.no_cache
    /\ ExpiryClass(project) = "Stale"
    /\ project.reply.state = project.state
    /\ InFlight(project)

\* A no_cache caller has got a future although the cached state is Updated.
C35_WitnessNoCache ==
    /\ project.key # "none"
    /\ project.reply.no_cache
    /\ GotFuture(project)
    /\ ExpiryClass(project) = "Updated"
    /\ InFlight(project)

\* A caller has got the Updated state and no fetch was ever sent for it.
C35_WitnessUpdated ==
    /\ project.key # "none"
    /\ project.reply.kind = "ok"
    /\ ExpiryClass(project) = "Updated"
    /\ project.state_channel = None
    /\ \A k \in 1..Len(project.fetches) : project.fetches[k].answered

---------------------------------------------------------------------------
\* C36: update_state changes nothing when no state channel is pending;
\* when the pending channel is marked no_cache and the response answers a
\* request without no_cache, the state and the channel stay as they are
\* and the waiters stay pending; otherwise the state becomes that of the
\* response (none if the response has none), the channel is cleared and
\* every waiter gets the new state, or FetchFailed if there is none.
Answered(k) ==
    /\ k \in 1..Len(project.fetches)
    /\ k \in 1..Len(project'.fetches)
    /\ ~project.fetches[k].answered
    /\ project'.fetches[k].answered

Untouched ==
    /\ project'.state = project.state
    /\ project'.state_channel = project.state_channel
    /\ project'.waiters = project.waiters
    /\ project'.metrics_allowed = project.metrics_allowed

WaitersGot(result) ==
    /\ Len(project'.waiters) = Len(project.waiters)
    /\ \A w \in 1..Len(project.waiters) :
          project'.waiters[w] = IF project.waiters[w] = Pending THEN result
                                ELSE project.waiters[w]

C36_UpdateState ==
    [][\A k \in 1..MaxGets : Answered(k) =>
         IF project.state_channel = None THEN Untouched
         ELSE IF project.state_channel[1].no_cache /\ ~project.fetches[k].no_cache
         THEN Untouched
         ELSE /\ project'.state_channel = None
              /\ project'.state \in StateResults(project.now)
              /\ IF project'.state = None THEN WaitersGot(FetchFailed)
                 ELSE WaitersGot(Resolved(project'.state[1]))]_vars

\* A response was taken and a waiter holds the state the project now has.
C36_Witness ==
    /\ project.key # "none"
    /\ project.updates > 0
    /\ project.state # None
    /\ project.state_channel = None
    /\ \E w \in 1..Len(project.waiters) : project.waiters[w] = Resolved(project.state[1])

\* The response to a superseded request has come; the waiters still wait.
C36_WitnessSuperseded ==
    /\ project.key # "none"
    /\ project.state_channel # None
    /\ project.state_channel[1].no_cache
    /\ \E k \in 1..Len(project.fetches) :
          project.fetches[k].answered /\ ~project.fetches[k].no_cache
             /\ project.fetches[k].after = project.updates
    /\ \E w \in 1..Len(project.waiters) : project.waiters[w] = Pending

\* A response without a state was taken and has failed a waiter.
C36_WitnessAbsent ==
    /\ project.key # "none"
    /\ project.updates > 0
    /\ project.state = None
    /\ \E w \in 1..Len(project.waiters) : project.waiters[w] = FetchFailed

---------------------------------------------------------------------------
\* C37: while a state channel is pending, a get_or_fetch_state call sends
\* no UpdateProjectState, unless it is the first effective no_cache call
\* to a channel not yet marked no_cache, which sends one and marks the
\* channel. So of the requests sent between two accepted update_state
\* calls at most one is without no_cache and at most one is with it.
SentSince(p, updates, no_cache) ==
    {k \in 1..Len(p.fetches) : p.fetches[k].after = updates /\ p.fetches[k].no_cache = no_cache}

C37_AtMostTwoFetches ==
    \A updates \in 0..MaxGets : \A no_cache \in BOOLEAN :
        Cardinality(SentSince(project, updates, no_cache)) <= 1

C37_FetchesDeduplicated ==
    [][Got /\ project.state_channel # None =>
         IF project'.reply.no_cache /\ ~project.state_channel[1].no_cache
         THEN /\ Len(project'.fetches) = Len(project.fetches) + 1
              /\ project'.fetches[Len(project'.fetches)].no_cache
              /\ project'.state_channel = Some(StateChannel(TRUE))
         ELSE /\ project'.fetches = project.fetches
              /\ project'.state_channel = project.state_channel]_vars

C37_Deduplicated == C37_FetchesDeduplicated /\ []C37_AtMostTwoFetches

\* Two calls were made before any response was taken; they have sent one
\* request and both wait.
C37_Witness ==
    /\ project.key # "none"
    /\ project.gets = 2
    /\ project.updates = 0
    /\ Len(project.fetches) = 1
    /\ Len(project.waiters) = 2
    /\ project.waiters[1] = Pending
    /\ project.waiters[2] = Pending
    /\ project.state_channel # None

\* A no_cache call has met a pending channel that was not marked no_cache
\* and has sent the second request.
C37_WitnessNoCache ==
    /\ project.key # "none"
    /\ project.updates = 0
    /\ Len(project.fetches) = 2
    /\ ~project.fetches[1].no_cache
    /\ project.fetches[2].no_cache
    /\ project.state_channel = Some(StateChannel(TRUE))

---------------------------------------------------------------------------
\* C38: if every request that was sent is answered in the end, every
\* caller that got a pending future is resolved in the end, with the new
\* project state when the response taken has one and with FetchFailed when
\* it has none; no waiter stays pending for ever.
Waits(w) == w <= Len(project.waiters) /\ project.waiters[w] = Pending

Done(w) == w <= Len(project.waiters) /\ project.waiters[w] # Pending

C38_WaitersResolved ==
    /\ \A w \in 1..MaxGets : Waits(w) ~> Done(w)
    /\ [][\A w \in 1..MaxGets : Waits(w) /\ Done(w)' =>
            /\ project'.updates = project.updates + 1
            /\ project'.waiters[w] = IF project'.state = None THEN FetchFailed
                                     ELSE Resolved(project'.state[1])]_vars

\* Two callers that waited have been resolved by different responses, one
\* with a state and one with FetchFailed.
C38_Witness ==
    /\ project.key # "none"
    /\ project.updates >= 2
    /\ \E v, w \in 1..Len(project.waiters) :
          project.waiters[v] = FetchFailed /\ project.waiters[w].status = "ok"

---------------------------------------------------------------------------
\* C39: active_envelopes is the number of HandleEnvelope messages that were
\* queued and whose handling has not finished: it is decremented once
\* for every envelope whose handling ends, however it ends, it is never
\* negative, and it is zero when every queued envelope has finished.
Unfinished == {h \in 1..Len(handles) : handles[h].phase # "done"}

C39_ActiveEnvelopesCounted ==
    /\ active_envelopes = Cardinality(Unfinished)
    /\ active_envelopes >= 0
    /\ Unfinished = {} => active_envelopes = 0

\* Two envelopes were queued by one message; one has timed out, the other
\* was accepted, and the counter is back at zero.
C39_Witness ==
    /\ Len(handles) = 2
    /\ Unfinished = {}
    /\ \E h \in 1..2 : handles[h].result.kind = "Timeout"
    /\ \E h \in 1..2 : handles[h].result.kind = "Accepted"
    /\ active_envelopes = 0

\* One envelope is finished and one is still handled: the counter is 1.
C39_WitnessOneLeft ==
    /\ Len(handles) = 2
    /\ Cardinality(Unfinished) = 1
    /\ \E h \in 1..2 : handles[h].phase = "done" /\ handles[h].result.kind = "RateLimited"
    /\ active_envelopes = 1

---------------------------------------------------------------------------
\* C40: an envelope is passed to send_envelope only after CheckEnvelope,
\* the trace sampling, the fetch of the project state and the processing
\* have succeeded, in this order, and only if the processed envelope is not
\* empty. An envelope the processing has left empty (one of client reports
\* only, for example) ends with the error RateLimited, is not sent and
\* causes no further outcome; the rate limits the processing returned are
\* forwarded to the project cache all the same.
Enters(h, phase) == handles[h].phase # phase /\ handles'[h].phase = phase

\* The processor's response for handle h says the envelope is empty, and it
\* reaches the manager in this step (the handling has not timed out).
EmptyResponseArrives(h) ==
    /\ handles[h].phase = "processing"
    /\ handles[h].processed.kind = "Ok"
    /\ handles[h].processed.envelope = <<>>
    /\ handles'[h].phase # "processing"
    /\ handles'[h].timeout_phase = "none"

EndedEmpty(rec) ==
    /\ rec.phase = "done"
    /\ rec.timeout_phase = "none"
    /\ rec.processed.kind = "Ok"
    /\ rec.processed.envelope = <<>>

C40_StagesInOrder ==
    [][\A h \in 1..Len(handles) :
         LET rec == handles[h]
             new == handles'[h]
         IN  /\ Enters(h, "check") => rec.phase = "queued"
             /\ Enters(h, "sample_trace") => rec.phase = "check"
             /\ Enters(h, "get_state") =>
                   IF rec.trace /\ HasItem(rec.envelope, IsTransactionItem)
                   THEN rec.phase = "sample_trace"
                   ELSE rec.phase = "check"
             /\ Enters(h, "processing") =>
                   rec.phase = "get_state" /\ new.project_state \in ProjectStates
             /\ Enters(h, "sending") =>
                   /\ rec.phase = "processing"
                   /\ rec.processed.kind = "Ok"
                   /\ rec.processed.envelope # <<>>
                   /\ new.envelope = rec.processed.envelope
             /\ rec.upstream = "none" /\ new.upstream # "none" => Enters(h, "sending")]_vars

C40_EmptyEndsRateLimited ==
    [][\A h \in 1..Len(handles) :
         /\ EmptyResponseArrives(h) =>
               /\ handles'[h].phase = "done"
               /\ handles'[h].result = Err("RateLimited", "")
               /\ handles'[h].upstream = "none"
               /\ handles'[h].outs = handles[h].outs
               /\ handles'[h].limits = handles[h].processed.rate_limits
               /\ mailbox' = mailbox
         /\ EndedEmpty(handles[h]) =>
               /\ handles'[h] = handles[h]
               /\ handles[h].upstream = "none"]_vars

C40_SentOnlyAfterAllStages == C40_StagesInOrder /\ C40_EmptyEndsRateLimited

\* An envelope whose event the quota took has come back empty with rate
\* limits: it ended with RateLimited, unsent, and the limits were forwarded.
C40_Witness ==
    \E h \in 1..Len(handles) :
        /\ EndedEmpty(handles[h])
        /\ handles[h].result = Err("RateLimited", "")
        /\ handles[h].processed.rate_limits
        /\ handles[h].limits
        /\ handles[h].upstream = "none"

\* An envelope of client reports only has ended with RateLimited.
C40_WitnessClientReports ==
    \E h \in 1..Len(handles) :
        /\ EndedEmpty(handles[h])
        /\ handles[h].original = EnvelopeSummary(<<ClientReportItem>>)
        /\ handles[h].result = Err("RateLimited", "")
        /\ ~handles[h].limits

\* An envelope that went through the trace sampling is being sent.
C40_WitnessSent ==
    \E h \in 1..Len(handles) :
        /\ handles[h].phase = "sending"
        /\ handles[h].trace
        /\ HasItem(handles[h].envelope, IsTransactionItem)
        /\ handles[h].upstream = "handed"

====
